---- MODULE Spec2Model ----
(***************************************************************************)
(* kedric/lambdarouter: a patricia-tree request router served either by a *)
(* socket HTTP server (ServeHTTP) or by the Lambda runtime (ServeLambda).  *)
(*                                                                         *)
(* Strings are sequences of one-symbol strings, so that indexing, slicing  *)
(* and splitting are computed as the Go code computes them.  The symbols   *)
(* "__stage__", "%7B" and "%7D" stand for the character runs they spell.   *)
(***************************************************************************)
EXTENDS Integers, Sequences, FiniteSets, TLC

VARIABLES env, mux, root, routes, last, groups, regs, wire, mutex, reqs, adder

vars ==
    <<env, mux, root, routes, last, groups, regs, wire, mutex, reqs, adder>>

\* What the groups made by NewGroup add to the state.
groupVars == <<groups, regs>>

\* The router's lock, the requests in flight and the goroutine that adds
\* routes while requests are served.
runVars == <<mutex, reqs, adder>>

\* The state the router's own operations leave alone when one request is
\* served at a time: the groups, the http.ResponseWriter a response is
\* written to, and the goroutines.
auxVars == <<groupVars, wire, runVars>>

(* ------------------------------ bounds --------------------------------- *)

\* Largest number of Handle calls in one run.
MaxRoutes == 3

\* Largest number of registrations through groups in one run.
MaxGroupRoutes == 2

(* ------------------------------ strings -------------------------------- *)

EmptyMap == [k \in {} |-> <<>>]

\* s[i:] of Go, i counted from 0.
From(s, i) == SubSeq(s, i + 1, Len(s))

\* s[:i] of Go.
Upto(s, i) == SubSeq(s, 1, i)

\* strings.IndexByte(s, '/'), counted from 0, -1 when there is none.
IndexSlash(s) ==
    IF \E i \in 1..Len(s) : s[i] = "/"
    THEN (CHOOSE i \in 1..Len(s) : s[i] = "/" /\ \A j \in 1..(i - 1) : s[j] # "/") - 1
    ELSE -1

RECURSIVE Split(_)
\* strings.Split(s, "/").
Split(s) ==
    LET i == IndexSlash(s)
    IN  IF i < 0 THEN <<s>> ELSE <<Upto(s, i)>> \o Split(From(s, i + 1))

RECURSIVE Join(_)
\* strings.Join(segs, "/").
Join(segs) ==
    IF segs = <<>> THEN <<>>
    ELSE IF Len(segs) = 1 THEN segs[1]
    ELSE segs[1] \o <<"/">> \o Join(Tail(segs))

\* The segments of a path handed to search (the leading slash already cut):
\* the empty path has none, "a/" has the two segments "a" and "".
Segments(p) == IF p = <<>> THEN <<>> ELSE Split(p)

RECURSIVE CleanSegs(_, _)
\* One pass over the segments of a path: empty and "." segments are dropped,
\* ".." removes the segment before it (and is dropped at the root).
CleanSegs(segs, acc) ==
    IF segs = <<>> THEN acc
    ELSE LET s == Head(segs)
         IN  IF s = <<>> \/ s = <<".">> THEN CleanSegs(Tail(segs), acc)
             ELSE IF s = <<".", ".">>
                  THEN CleanSegs(Tail(segs),
                                 IF acc = <<>> THEN acc ELSE Upto(acc, Len(acc) - 1))
                  ELSE CleanSegs(Tail(segs), Append(acc, s))

\* Clean: the canonical form of a path.  Repeated separators and "." and ".."
\* segments are removed, the result is rooted, and a trailing slash is kept.
Clean(p) ==
    IF p = <<>> THEN <<"/">>
    ELSE LET segs     == CleanSegs(Split(p), <<>>)
             trailing == Len(p) > 1 /\ p[Len(p)] = "/"
             body     == <<"/">> \o Join(segs)
         IN  IF trailing /\ segs # <<>> THEN body \o <<"/">> ELSE body

\* unescape of a captured token: percent-escapes are decoded.
unescapeSym(c) == IF c = "%7B" THEN "{" ELSE IF c = "%7D" THEN "}" ELSE c

unescape(s) == [i \in 1..Len(s) |-> unescapeSym(s[i])]

(* ------------------------------- trie ---------------------------------- *)

\* A node is named by the pattern segments that lead to it from the root.
Lit(tok) == [k |-> "lit", v |-> tok]
Wild == [k |-> "wild", v |-> <<>>]
CatchAll == [k |-> "all", v |-> <<>>]

\* &node{path: "/"} and every node addPath creates.
NewNode(p) ==
    [path              |-> p,
     leafHandler       |-> EmptyMap,
     leafWildcardNames |-> <<>>,
     addSlash          |-> FALSE,
     isCatchAll        |-> FALSE,
     implicitHead      |-> FALSE]

\* The pattern segment kinds: ":name", "*name", or a literal token.
SegKey(seg) ==
    IF seg # <<>> /\ seg[1] = ":" THEN Wild
    ELSE IF seg # <<>> /\ seg[1] = "*" THEN CatchAll
    ELSE Lit(seg)

SegName(seg) == From(seg, 1)

IsWildSeg(seg) == SegKey(seg).k # "lit"

RECURSIVE PatternKey(_)
\* The node a pattern (leading slash cut) ends at.
PatternKey(segs) ==
    IF segs = <<>> THEN <<>> ELSE <<SegKey(Head(segs))>> \o PatternKey(Tail(segs))

RECURSIVE PatternNames(_)
\* The wildcard names of a pattern, root to leaf.
PatternNames(segs) ==
    IF segs = <<>> THEN <<>>
    ELSE (IF IsWildSeg(Head(segs)) THEN <<SegName(Head(segs))>> ELSE <<>>)
         \o PatternNames(Tail(segs))

\* A catch-all segment is legal only as the last segment of a pattern.
CatchAllLast(segs) ==
    \A i \in 1..Len(segs) : SegKey(segs[i]) = CatchAll => i = Len(segs)

\* PatternConflict: a different wildcard name is already bound at a position.
PatternConflict(tree, segs) ==
    \E i \in 1..Len(segs) :
        /\ IsWildSeg(segs[i])
        /\ PatternKey(Upto(segs, i)) \in DOMAIN tree
        /\ tree[PatternKey(Upto(segs, i))].path # SegName(segs[i])

\* addPath: walks the pattern, creating the nodes that are missing, and
\* records the wildcard names at the node the pattern ends at.
addPath(tree, segs) ==
    LET leaf  == PatternKey(segs)
        keys  == {PatternKey(Upto(segs, i)) : i \in 0..Len(segs)}
        fresh == keys \ DOMAIN tree
        seg(key) == CHOOSE i \in 1..Len(segs) : PatternKey(Upto(segs, i)) = key
        made(key) ==
            LET s == segs[seg(key)]
            IN  [NewNode(IF IsWildSeg(s) THEN SegName(s) ELSE s)
                    EXCEPT !.isCatchAll = (SegKey(s) = CatchAll)]
        grown == [key \in DOMAIN tree \cup fresh |->
                    IF key \in DOMAIN tree THEN tree[key] ELSE made(key)]
    IN  [grown EXCEPT ![leaf].leafWildcardNames = PatternNames(segs)]

\* setHandler: binds handler under verb at a node.  A HEAD handler installed
\* on behalf of GET (implicitHead) may be replaced by a registered one.
DuplicateRoute(n, verb) ==
    verb \in DOMAIN n.leafHandler /\ (verb # "HEAD" \/ ~n.implicitHead)

setHandler(n, verb, handler, implicitHead) ==
    [n EXCEPT
        !.leafHandler  = [v \in DOMAIN n.leafHandler \cup {verb} |->
                            IF v = verb THEN handler ELSE n.leafHandler[v]],
        !.implicitHead = IF verb = "HEAD" THEN implicitHead ELSE n.implicitHead]

\* A nil HandlerFunc.
NoHandler == [kind |-> "nil"]

\* search's (nil, nil, nil).
NoMatch == [found |-> FALSE, node |-> <<>>, handler |-> NoHandler, params |-> <<>>]

\* n.leafHandler[method]: the zero value (nil) when the method has no entry.
HandlerFor(n, method) ==
    IF method \in DOMAIN n.leafHandler THEN n.leafHandler[method] ELSE NoHandler

\* Whether the catch-all child also matches a remainder of length zero.
CatchAllMatchesEmpty == FALSE

RECURSIVE searchWildcardFirst(_, _, _, _)
\* search with the wildcard child tried before the literal child.
searchWildcardFirst(tree, key, method, segs) ==
    IF segs = <<>>
    THEN IF DOMAIN tree[key].leafHandler = {} THEN NoMatch
         ELSE [found |-> TRUE, node |-> key,
               handler |-> HandlerFor(tree[key], method), params |-> <<>>]
    ELSE
    LET tok    == Head(segs)
        lit    == Append(key, Lit(tok))
        wild   == Append(key, Wild)
        all    == Append(key, CatchAll)
        viaLit == IF lit \in DOMAIN tree
                  THEN searchWildcardFirst(tree, lit, method, Tail(segs)) ELSE NoMatch
        viaWild ==
            IF wild \in DOMAIN tree /\ tok # <<>>
            THEN LET r == searchWildcardFirst(tree, wild, method, Tail(segs))
                 IN  IF r.found
                     THEN [r EXCEPT !.params = Append(r.params, unescape(tok))]
                     ELSE NoMatch
            ELSE NoMatch
        viaAll ==
            IF all \in DOMAIN tree /\ (Join(segs) # <<>> \/ CatchAllMatchesEmpty)
            THEN [found |-> TRUE, node |-> all,
                  handler |-> HandlerFor(tree[all], method),
                  params |-> <<unescape(Join(segs))>>]
            ELSE NoMatch
    IN  IF viaWild.found THEN viaWild
        ELSE IF viaLit.found THEN viaLit
        ELSE viaAll

RECURSIVE searchForwardOnly(_, _, _, _)
\* search as a single descent: the first child that fits the segment is
\* followed and never given up.
searchForwardOnly(tree, key, method, segs) ==
    IF segs = <<>>
    THEN IF DOMAIN tree[key].leafHandler = {} THEN NoMatch
         ELSE [found |-> TRUE, node |-> key,
               handler |-> HandlerFor(tree[key], method), params |-> <<>>]
    ELSE
    LET tok    == Head(segs)
        lit    == Append(key, Lit(tok))
        wild   == Append(key, Wild)
        all    == Append(key, CatchAll)
    IN  IF lit \in DOMAIN tree
        THEN searchForwardOnly(tree, lit, method, Tail(segs))
        ELSE IF wild \in DOMAIN tree /\ tok # <<>>
        THEN LET r == searchForwardOnly(tree, wild, method, Tail(segs))
             IN  IF r.found
                 THEN [r EXCEPT !.params = Append(r.params, unescape(tok))]
                 ELSE NoMatch
        ELSE IF all \in DOMAIN tree /\ (Join(segs) # <<>> \/ CatchAllMatchesEmpty)
        THEN [found |-> TRUE, node |-> all,
              handler |-> HandlerFor(tree[all], method),
              params |-> <<unescape(Join(segs))>>]
        ELSE NoMatch

RECURSIVE search(_, _, _, _)
\* search: consumes the path one segment at a time.  At each node the exact
\* literal child is tried first; when that branch is a dead end the named
\* wildcard child is tried, then the catch-all child, which takes the whole
\* remainder.  Captured values are collected leaf first.
search(tree, key, method, segs) ==
    IF segs = <<>>
    THEN IF DOMAIN tree[key].leafHandler = {} THEN NoMatch
         ELSE [found |-> TRUE, node |-> key,
               handler |-> HandlerFor(tree[key], method), params |-> <<>>]
    ELSE
    LET tok    == Head(segs)
        lit    == Append(key, Lit(tok))
        wild   == Append(key, Wild)
        all    == Append(key, CatchAll)
        viaLit == IF lit \in DOMAIN tree
                  THEN search(tree, lit, method, Tail(segs)) ELSE NoMatch
        viaWild ==
            IF wild \in DOMAIN tree /\ tok # <<>>
            THEN LET r == search(tree, wild, method, Tail(segs))
                 IN  IF r.found
                     THEN [r EXCEPT !.params = Append(r.params, unescape(tok))]
                     ELSE NoMatch
            ELSE NoMatch
        viaAll ==
            IF all \in DOMAIN tree /\ (Join(segs) # <<>> \/ CatchAllMatchesEmpty)
            THEN [found |-> TRUE, node |-> all,
                  handler |-> HandlerFor(tree[all], method),
                  params |-> <<unescape(Join(segs))>>]
            ELSE NoMatch
    IN  IF viaLit.found THEN viaLit
        ELSE IF viaWild.found THEN viaWild
        ELSE viaAll

(* ------------------------------ router --------------------------------- *)

Redirect301 == 0
Redirect307 == 1
Redirect308 == 2
UseHandler == 3

\* The name of the synthetic wildcard New() puts before every route when the
\* program runs outside Lambda.
StageName == <<"__stage__">>

\* New(): the router's fields.  The fields New() does not set have their zero
\* values.
New ==
    [HeadCanUseGet               |-> TRUE,
     RedirectTrailingSlash       |-> TRUE,
     RedirectCleanPath           |-> TRUE,
     RedirectBehavior            |-> Redirect301,
     RedirectMethodBehavior      |-> EmptyMap,
     RemoveCatchAllTrailingSlash |-> FALSE,
     OptionsHandler              |-> NoHandler,
     authorizer                  |-> FALSE,
     SafeAddRoutesWhileRunning   |-> FALSE,
     PanicHandler                |-> FALSE]

\* The path of the router's own group: "/:__stage__" when AWS_EXECUTION_ENV
\* is not set, empty on Lambda.
GroupPath(e) == IF e = "socket" THEN <<"/", ":">> \o StageName ELSE <<>>

\* redirectStatusCode: the status code of a redirect for a method, and
\* whether the router redirects at all.
redirectStatusCode(t, method) ==
    LET behavior == IF method \in DOMAIN t.RedirectMethodBehavior
                    THEN t.RedirectMethodBehavior[method]
                    ELSE t.RedirectBehavior
    IN  IF behavior = Redirect301 THEN [code |-> 301, ok |-> TRUE]
        ELSE IF behavior = Redirect307 THEN [code |-> 307, ok |-> TRUE]
        ELSE IF behavior = Redirect308 THEN [code |-> 308, ok |-> TRUE]
        ELSE IF behavior = UseHandler THEN [code |-> 0, ok |-> FALSE]
        ELSE [code |-> 301, ok |-> TRUE]

\* redirectHandler: a handler that answers with LambdaRedirect.
redirectHandler(newPath, statusCode) ==
    [kind |-> "redirect", newPath |-> newPath, statusCode |-> statusCode]

LookupResult(code, handler, params, leafHandler) ==
    [StatusCode |-> code, handler |-> handler, params |-> params,
     leafHandler |-> leafHandler]

\* paramMap built with the value at index stored under the name at index.
ParamMapForward(names, params) ==
    [k \in {names[i] : i \in 1..Len(params)} |->
        params[CHOOSE i \in 1..Len(params) :
                    names[i] = k /\ \A j \in 1..Len(params) : names[j] = k => j <= i]]

\* The loop that builds paramMap: the value at index is stored under the
\* name at numParams-index-1, later stores overwriting earlier ones.
ParamMap(names, params) ==
    LET numParams == Len(params)
        nameAt(index) == names[numParams - index]
    IN  [k \in {nameAt(index) : index \in 0..(numParams - 1)} |->
            LET lastIndex == CHOOSE index \in 0..(numParams - 1) :
                                /\ nameAt(index) = k
                                /\ \A j \in 0..(numParams - 1) :
                                        nameAt(j) = k => j <= index
            IN  params[lastIndex + 1]]

\* path[1:], the path handed to root.search.
SearchPath(path) == From(path, 1)

\* lookup, after a node was found: lines 511-558.
lookupFound(t, tree, methode, s, path, unescapedPath, trailingSlash) ==
    LET n        == tree[s.node]
        handler  == IF s.handler = NoHandler /\ methode = "OPTIONS"
                       /\ t.OptionsHandler # NoHandler
                    THEN t.OptionsHandler ELSE s.handler
        sc       == redirectStatusCode(t, methode)
        h        == IF n.addSlash
                    THEN redirectHandler(unescapedPath \o <<"/">>, sc.code)
                    ELSE IF path # <<"/">>
                    THEN redirectHandler(unescapedPath, sc.code)
                    ELSE NoHandler
        redirects == /\ ~n.isCatchAll \/ t.RemoveCatchAllTrailingSlash
                     /\ trailingSlash # n.addSlash /\ t.RedirectTrailingSlash
                     /\ sc.ok
                     /\ h # NoHandler
    IN  IF handler = NoHandler
        THEN [panicked |-> FALSE, found |-> FALSE,
              result |-> LookupResult(405, NoHandler, EmptyMap, n.leafHandler)]
        ELSE IF redirects
        THEN [panicked |-> FALSE, found |-> TRUE,
              result |-> LookupResult(sc.code, h, EmptyMap, EmptyMap)]
        ELSE IF Len(s.params) # 0 /\ Len(s.params) # Len(n.leafWildcardNames)
        THEN [panicked |-> TRUE, found |-> FALSE,
              result |-> LookupResult(404, NoHandler, EmptyMap, EmptyMap)]
        ELSE [panicked |-> FALSE, found |-> TRUE,
              result |-> LookupResult(200, handler,
                            IF Len(s.params) # 0
                            THEN ParamMap(n.leafWildcardNames, s.params)
                            ELSE EmptyMap,
                            EmptyMap)]

\* lookup: the routing decision for a request.  panicked is set where the Go
\* code panics (an empty path, or a parameter list of the wrong length).
lookup(t, tree, request) ==
    LET path0   == request.Path
        pathLen == Len(path0)
        methode == request.HTTPMethod
        notFound == [panicked |-> FALSE, found |-> FALSE,
                     result |-> LookupResult(404, NoHandler, EmptyMap, EmptyMap)]
    IN  IF pathLen = 0
        THEN [notFound EXCEPT !.panicked = TRUE]
        ELSE
        LET trailingSlash == path0[pathLen] = "/" /\ pathLen > 1
            cut           == trailingSlash /\ t.RedirectTrailingSlash
            path          == IF cut THEN Upto(path0, pathLen - 1) ELSE path0
            unescapedPath == path
            s1            == search(tree, <<>>, methode, Segments(SearchPath(path)))
            cleanPath     == Clean(unescapedPath)
            s2            == search(tree, <<>>, methode, Segments(SearchPath(cleanPath)))
            sc            == redirectStatusCode(t, methode)
        IN  IF s1.found
            THEN lookupFound(t, tree, methode, s1, path, unescapedPath, trailingSlash)
            ELSE IF ~t.RedirectCleanPath THEN notFound
            ELSE IF ~s2.found THEN notFound
            ELSE IF sc.ok
            THEN [panicked |-> FALSE, found |-> TRUE,
                  result |-> LookupResult(sc.code, redirectHandler(cleanPath, sc.code),
                                          EmptyMap, EmptyMap)]
            ELSE lookupFound(t, tree, methode, s2, path, unescapedPath, trailingSlash)

(* ----------------------------- responses ------------------------------- *)

\* The byte order of the method names, as sort.Strings orders them.
MethodOrder == <<"DELETE", "GET", "HEAD", "OPTIONS", "PATCH", "POST", "PUT">>

RECURSIVE UnsortedStrings(_, _)
\* The keys of a map as a range over it may yield them when they are not
\* sorted: here in descending order.
UnsortedStrings(set, i) ==
    IF i > Len(MethodOrder) THEN <<>>
    ELSE UnsortedStrings(set, i + 1)
         \o (IF MethodOrder[i] \in set THEN <<MethodOrder[i]>> ELSE <<>>)

RECURSIVE SortStrings(_, _)
\* sort.Strings of the keys of a map: the members of set in ascending order.
SortStrings(set, i) ==
    IF i > Len(MethodOrder) THEN <<>>
    ELSE (IF MethodOrder[i] \in set THEN <<MethodOrder[i]>> ELSE <<>>)
         \o SortStrings(set, i + 1)

RECURSIVE JoinSpace(_)
\* strings.Join(allow, " ").
JoinSpace(words) ==
    IF words = <<>> THEN <<>>
    ELSE IF Len(words) = 1 THEN <<words[1]>>
    ELSE <<words[1], " ">> \o JoinSpace(Tail(words))

Response(code, headers, body) ==
    [StatusCode |-> code, Headers |-> headers, Body |-> body,
     IsBase64Encoded |-> FALSE]

LambdaRedirect(req, newUrl, code) ==
    Response(code, [k \in {"Location"} |-> newUrl], <<>>)

LambdaNotAllowed(req, allow) ==
    Response(405, [k \in {"Allow"} |-> allow], <<"Method Not Allowed">>)

LambdaNotFound(req) == Response(404, EmptyMap, <<"Not Found">>)

\* A registered handler is the caller's code: it answers 200.
RouteHandler(req, h) == Response(200, EmptyMap, <<"OK">>)

\* ServeLookupResult: the one callee a lookup result is served by, the request
\* it is given and the response it returns.
ServeLookupResult(t, req, lr) ==
    IF lr.handler = NoHandler
    THEN IF lr.StatusCode = 405 /\ DOMAIN lr.leafHandler # {}
         THEN LET allow == SortStrings(DOMAIN lr.leafHandler, 1)
              IN  [callee |-> "MethodNotAllowedHandler", handler |-> NoHandler,
                   req |-> req, response |-> LambdaNotAllowed(req, JoinSpace(allow))]
         ELSE [callee |-> "NotFoundHandler", handler |-> NoHandler,
               req |-> req, response |-> LambdaNotFound(req)]
    ELSE IF lr.handler.kind = "redirect"
    THEN [callee |-> "redirectHandler", handler |-> lr.handler, req |-> req,
          response |-> LambdaRedirect(req, lr.handler.newPath, lr.handler.statusCode)]
    ELSE [callee |-> "handler", handler |-> lr.handler, req |-> req,
          response |-> RouteHandler(req, lr.handler)]

(* ------------------------------ adapters ------------------------------- *)

\* url.URL.EscapedPath on the symbols of the model: braces are escaped.
escapeSym(c) == IF c = "{" THEN "%7B" ELSE IF c = "}" THEN "%7D" ELSE c

EscapedPath(p) == [i \in 1..Len(p) |-> escapeSym(p[i])]

\* req.URL.Query().Get(key): the first value of the key in the query string.
QueryGet(query, key) ==
    query[CHOOSE i \in 1..Len(query) :
            /\ query[i][1] = key
            /\ \A j \in 1..(i - 1) : query[j][1] # key][2]

\* RequestToLambda: the event built from a socket request.
RequestToLambda(r) ==
    [HTTPMethod            |-> r.Method,
     Path                  |-> EscapedPath(r.Path),
     Resource              |-> EscapedPath(r.Path),
     QueryStringParameters |-> [k \in {r.RawQuery[i][1] : i \in 1..Len(r.RawQuery)} |->
                                    QueryGet(r.RawQuery, k)],
     PathParameters        |-> EmptyMap,
     StageVariables        |-> EmptyMap,
     Stage                 |-> <<>>,
     Authorizer            |-> EmptyMap]

IdentSyms == {"a", "b", "c", "x", "y", "r", "proxy"}

\* The index (from 1) of the first "}" of s, 0 when there is none.
IndexClose(s) ==
    IF \E i \in 1..Len(s) : s[i] = "}"
    THEN CHOOSE i \in 1..Len(s) : s[i] = "}" /\ \A j \in 1..(i - 1) : s[j] # "}"
    ELSE 0

\* strings.ReplaceAll(s, "+", "").
DropPlus(s) == SelectSeq(s, LAMBDA c : c # "+")

RECURSIVE ParseTemplate(_)
\* template.Parse of the resource after its three ReplaceAll calls, read off
\* the resource itself: "{" opens the action "{{." that the next "}" closes,
\* a "}" outside an action is the text "}}", "+" is gone.  An action holds a
\* chain of field names, or nothing (the dot itself).
ParseTemplate(s) ==
    IF s = <<>> THEN [ok |-> TRUE, items |-> <<>>]
    ELSE IF s[1] = "{"
    THEN LET close == IndexClose(s)
             body  == DropPlus(SubSeq(s, 2, close - 1))
             names == Split([i \in 1..Len(body) |->
                                IF body[i] = "." THEN "/" ELSE body[i]])
             wellFormed == /\ close > 0
                           /\ \A i \in 1..Len(body) : body[i] \in IdentSyms \cup {"."}
                           /\ body = <<>> \/ \A i \in 1..Len(names) : names[i] # <<>>
             rest  == ParseTemplate(From(s, close))
         IN  IF wellFormed /\ rest.ok
             THEN [ok |-> TRUE,
                   items |-> <<[t |-> "field",
                                names |-> IF body = <<>> THEN <<>> ELSE names]>>
                             \o rest.items]
             ELSE [ok |-> FALSE, items |-> <<>>]
    ELSE LET rest == ParseTemplate(Tail(s))
             text == IF s[1] = "}" THEN <<"}", "}">>
                     ELSE IF s[1] = "+" THEN <<>> ELSE <<s[1]>>
         IN  IF rest.ok
             THEN [ok |-> TRUE, items |-> <<[t |-> "text", v |-> text]>> \o rest.items]
             ELSE rest

\* fmt's rendering of a map[string]string of at most one entry.
MapText(params) ==
    IF DOMAIN params = {} THEN <<"map[", "]">>
    ELSE LET k == CHOOSE k \in DOMAIN params : TRUE
         IN  <<"map[">> \o k \o <<":">> \o params[k] \o <<"]">>

RECURSIVE ExecuteTemplate(_, _)
\* tmpl.Execute: writes the items in order and stops at the first action that
\* fails (a field of a string), leaving what was written before it.
ExecuteTemplate(items, params) ==
    IF items = <<>> THEN <<>>
    ELSE LET it == Head(items)
         IN  IF it.t = "text" THEN it.v \o ExecuteTemplate(Tail(items), params)
             ELSE IF it.names = <<>>
             THEN MapText(params) \o ExecuteTemplate(Tail(items), params)
             ELSE IF Len(it.names) > 1 THEN <<>>
             ELSE (IF it.names[1] \in DOMAIN params THEN params[it.names[1]] ELSE <<>>)
                  \o ExecuteTemplate(Tail(items), params)

\* UseTemplate: the resource rendered against the path parameters, or the
\* event's path when the template does not parse.
UseTemplate(event) ==
    LET tmpl == ParseTemplate(event.Resource)
    IN  IF ~tmpl.ok THEN event.Path
        ELSE ExecuteTemplate(tmpl.items, event.PathParameters)

CleanPath(event) == UseTemplate(event)

\* strings.Contains(s, "{proxy+}").
ContainsProxy(s) ==
    \E i \in 1..(Len(s) - 3) : SubSeq(s, i, i + 3) = <<"{", "proxy", "+", "}">>

(* ------------------------------- inputs -------------------------------- *)

Methods == {"GET", "POST", "HEAD"}

\* The patterns the caller registers.
PatA_X   == <<"/", "a", "/", ":", "x">>
PatA_B   == <<"/", "a", "/", "b">>
PatA_B_S == <<"/", "a", "/", "b", "/">>
PatFiles == <<"/", "f", "/", "*", "r">>
PatPlus  == <<"/", "a", "+", "b">>
PatX_Y   == <<"/", ":", "x", "/", ":", "y">>

Route(m, p) == [m |-> m, p |-> p]

RouteSet ==
    {Route("GET", PatA_X), Route("GET", PatA_B), Route("POST", PatA_B),
     Route("HEAD", PatA_B), Route("GET", PatA_B_S), Route("GET", PatFiles),
     Route("GET", PatPlus), Route("GET", PatX_Y)}

\* The handler registered with a route.
HandlerOf(rt) == [kind |-> "route", m |-> rt.m, p |-> rt.p]

\* The request paths, as they reach the Lambda transport.
ReqPaths ==
    {<<"/">>, PatA_B, <<"/", "a", "/", "c">>, PatA_B_S,
     <<"/", "f", "/", "a", "/", "b">>, <<"/", "f", "/", "a", "/">>,
     <<"/", "f", "/">>, PatPlus, <<"/", "a", "/", "/", "b">>}

Stages == {<<"s">>, <<"t">>}

\* The stage variables handed to Serve.
StageVariables ==
    [st \in Stages |-> [k \in {"v"} |-> IF st = <<"s">> THEN <<"1">> ELSE <<"2">>]]

Queries == {<<>>, <<<<"k", <<"1">>>>, <<"k", <<"2">>>>>>}

\* The requests of the socket transport: a stage segment before the path.
HttpRequests ==
    {[Method |-> m, Path |-> <<"/">> \o st \o p, RawQuery |-> <<>>] :
        m \in Methods, st \in Stages, p \in ReqPaths}
    \cup {[Method |-> "GET", Path |-> <<"/", "s">> \o p, RawQuery |-> q] :
        p \in {PatA_B, PatA_B_S}, q \in Queries}

\* The events of the Lambda transport: the path as resource, and resources
\* with placeholders together with the parameters API Gateway extracted.
LambdaEvents ==
    {[HTTPMethod |-> m, Path |-> p, Resource |-> p, PathParameters |-> EmptyMap,
      QueryStringParameters |-> EmptyMap] : m \in Methods, p \in ReqPaths}
    \cup {[HTTPMethod |-> "GET", Path |-> PatA_B_S, Resource |-> PatA_B_S,
           PathParameters |-> EmptyMap,
           QueryStringParameters |-> [k \in {"k"} |-> <<"1">>]],
          [HTTPMethod |-> "GET", Path |-> <<"/", "a", "/", "c">>,
           Resource |-> <<"/", "a", "/", "{", "x", "}">>,
           PathParameters |-> [k \in {<<"x">>} |-> <<"c">>],
           QueryStringParameters |-> EmptyMap],
          [HTTPMethod |-> "GET", Path |-> <<"/", "a", "/", "{", "x", "}">>,
           Resource |-> <<"/", "a", "/", "{", "x", "}">>,
           PathParameters |-> EmptyMap,
           QueryStringParameters |-> EmptyMap],
          [HTTPMethod |-> "GET", Path |-> <<"/", "f", "/", "a", "/", "b">>,
           Resource |-> <<"/", "f", "/", "{", "proxy", "+", "}">>,
           PathParameters |-> [k \in {<<"proxy">>} |-> <<"a", "/", "b">>],
           QueryStringParameters |-> EmptyMap]}

\* What the caller's authorizer hook may return: a context and an error.
AuthContexts == {EmptyMap, [k \in {"user"} |-> <<"u">>]}

AuthOutcomes == {[Context |-> c, err |-> e] : c \in AuthContexts, e \in BOOLEAN}

NoAuth == [Context |-> EmptyMap, err |-> FALSE]

(* ---------------------------- registration ----------------------------- *)

\* Handle, up to the call of addPath: the group's path is put before the
\* pattern, and one trailing slash is cut when RedirectTrailingSlash is set.
FullPath(e, pattern) == GroupPath(e) \o pattern

HasSlash(t, full) ==
    Len(full) > 1 /\ full[Len(full)] = "/" /\ t.RedirectTrailingSlash

HandleSegs(t, e, pattern) ==
    LET full == FullPath(e, pattern)
        path == IF HasSlash(t, full) THEN Upto(full, Len(full) - 1) ELSE full
    IN  Segments(From(path, 1))

\* Whether Handle returns; it panics on a conflict and the program stops.
CanHandle(t, e, tree, rt) ==
    LET segs == HandleSegs(t, e, rt.p)
        leaf == PatternKey(segs)
    IN  /\ Len(FullPath(e, rt.p)) > 0
        /\ CatchAllLast(segs)
        /\ ~PatternConflict(tree, segs)
        /\ leaf \in DOMAIN tree => ~DuplicateRoute(tree[leaf], rt.m)

\* Handle without the HEAD fallback: only the route's own method is set.
HandleTreeNoHead(t, e, tree, rt) ==
    LET segs   == HandleSegs(t, e, rt.p)
        leaf   == PatternKey(segs)
        added  == addPath(tree, segs)
        n0     == IF HasSlash(t, FullPath(e, rt.p))
                  THEN [added[leaf] EXCEPT !.addSlash = TRUE] ELSE added[leaf]
    IN  [added EXCEPT ![leaf] = setHandler(n0, rt.m, HandlerOf(rt), FALSE)]

\* Handle: the tree after the route is added.  With HeadCanUseGet a GET
\* handler is also installed for HEAD where HEAD has no handler yet.
HandleTree(t, e, tree, rt) ==
    LET segs   == HandleSegs(t, e, rt.p)
        leaf   == PatternKey(segs)
        added  == addPath(tree, segs)
        n0     == IF HasSlash(t, FullPath(e, rt.p))
                  THEN [added[leaf] EXCEPT !.addSlash = TRUE] ELSE added[leaf]
        n1     == setHandler(n0, rt.m, HandlerOf(rt), FALSE)
        n2     == IF t.HeadCanUseGet /\ rt.m = "GET" /\ "HEAD" \notin DOMAIN n1.leafHandler
                  THEN setHandler(n1, "HEAD", HandlerOf(rt), TRUE) ELSE n1
    IN  [added EXCEPT ![leaf] = n2]

\* A group: the arguments of the NewGroup calls that led to it, and the path
\* it puts before the patterns registered through it.
RootGroup(e) == [chain |-> <<>>, path |-> GroupPath(e)]

\* A child group that forgets its own prefix.
NewGroupWithoutPrefix(g, path) ==
    [chain |-> Append(g.chain, path), path |-> g.path]

\* NewGroup(path): the child's path is the group's path followed by path.
NewGroup(g, path) ==
    [chain |-> Append(g.chain, path), path |-> g.path \o path]

\* The two registration surfaces of a group: the group itself and its
\* UsingContext() view, which registers on the same router.
Surfaces == {"plain", "context"}

(* ------------------------------ serving -------------------------------- *)

NoLookup ==
    [panicked |-> FALSE, found |-> FALSE,
     result |-> LookupResult(0, NoHandler, EmptyMap, EmptyMap)]

NoRequest ==
    [transport |-> "none", request |-> <<>>, event |-> <<>>, lookup |-> NoLookup,
     auth |-> NoAuth, calls |-> <<>>, handler |-> NoHandler,
     response |-> Response(0, EmptyMap, <<>>)]

\* m[k] of a Go map of strings: the empty string when the key is absent.
MapGet(m, k) == IF k \in DOMAIN m THEN m[k] ELSE <<>>

\* A map whose key is left in place.
MapKeep(m, k) == m

\* delete(m, k).
MapDelete(m, k) == [x \in DOMAIN m \ {k} |-> m[x]]

\* ServeHTTP.  The hook's answer a is the caller's code.
ServeHTTPResult(t, tree, r, a) ==
    LET event0 == RequestToLambda(r)
        lk     == lookup(t, tree, event0)
        stage  == MapGet(lk.result.params, StageName)
        result == [lk.result EXCEPT !.params = MapDelete(@, StageName)]
        event1 == [event0 EXCEPT
                     !.Stage          = stage,
                     !.StageVariables = IF stage \in DOMAIN StageVariables
                                        THEN StageVariables[stage] ELSE EmptyMap,
                     !.PathParameters = result.params]
        event2 == IF t.authorizer THEN [event1 EXCEPT !.Authorizer = a.Context]
                  ELSE event1
        served == ServeLookupResult(t, event2, result)
    IN  IF lk.panicked
        THEN [NoRequest EXCEPT !.transport = "http", !.request = r,
                               !.event = event0, !.lookup = lk,
                               !.calls = <<"lookup">>]
        ELSE [transport |-> "http", request |-> r, event |-> served.req,
              lookup |-> lk,
              auth |-> IF t.authorizer THEN a ELSE NoAuth,
              calls |-> <<"lookup">>
                        \o (IF t.authorizer THEN <<"authorizer">> ELSE <<>>)
                        \o <<served.callee>>,
              handler |-> served.handler,
              response |-> served.response]

\* ServeLambda.
ServeLambdaResult(t, tree, req) ==
    LET req1   == [req EXCEPT !.Path = CleanPath(req)]
        lk     == lookup(t, tree, req1)
        req2   == IF ContainsProxy(req1.Resource)
                  THEN [req1 EXCEPT !.PathParameters = lk.result.params] ELSE req1
        served == ServeLookupResult(t, req2, lk.result)
    IN  IF lk.panicked
        THEN [NoRequest EXCEPT !.transport = "lambda", !.request = req,
                               !.event = req1, !.lookup = lk,
                               !.calls = <<"lookup">>]
        ELSE [transport |-> "lambda", request |-> req, event |-> served.req,
              lookup |-> lk, auth |-> NoAuth,
              calls |-> <<"lookup", served.callee>>,
              handler |-> served.handler,
              response |-> served.response]

(* ----------------------------- serializer ------------------------------ *)

\* Bytes are numbers here; a text is the sequence of its ASCII codes.
PadChar == 61

\* decodeMap of base64.StdEncoding: the value of a character, -1 for a
\* character outside the alphabet.
B64Value(c) ==
    IF c >= 65 /\ c <= 90 THEN c - 65
    ELSE IF c >= 97 /\ c <= 122 THEN c - 71
    ELSE IF c >= 48 /\ c <= 57 THEN c + 4
    ELSE IF c = 43 THEN 62
    ELSE IF c = 47 THEN 63
    ELSE -1

\* CorruptInputError(at), with what was decoded before it.
Corrupt(at) == [ok |-> FALSE, at |-> at, bytes |-> <<>>]

RECURSIVE DecodeFrom(_, _)
\* base64.StdEncoding.DecodeString from offset si on (offsets from 0): one
\* quantum of four characters after the other, padded with "=".
DecodeFrom(src, si) ==
    LET rest == From(src, si)
        n    == Len(rest)
        d(k) == B64Value(rest[k])
        val(c3, c4) == d(1) * 262144 + d(2) * 4096 + c3 * 64 + c4
    IN  IF n = 0 THEN [ok |-> TRUE, at |-> si, bytes |-> <<>>]
        ELSE IF d(1) = -1 THEN Corrupt(si)
        ELSE IF n = 1 THEN Corrupt(si)
        ELSE IF d(2) = -1 THEN Corrupt(si + 1)
        ELSE IF n = 2 THEN Corrupt(si)
        ELSE IF rest[3] = PadChar
        THEN IF n = 3 THEN Corrupt(Len(src))
             ELSE IF rest[4] # PadChar THEN Corrupt(si + 2)
             ELSE IF n > 4 THEN Corrupt(si + 4)
             ELSE [ok |-> TRUE, at |-> si + 4,
                   bytes |-> <<val(0, 0) \div 65536>>]
        ELSE IF d(3) = -1 THEN Corrupt(si + 2)
        ELSE IF n = 3 THEN Corrupt(si)
        ELSE IF rest[4] = PadChar
        THEN IF n > 4 THEN Corrupt(si + 4)
             ELSE [ok |-> TRUE, at |-> si + 4,
                   bytes |-> <<val(d(3), 0) \div 65536,
                               (val(d(3), 0) \div 256) % 256>>]
        ELSE IF d(4) = -1 THEN Corrupt(si + 3)
        ELSE LET more == DecodeFrom(src, si + 4)
                 v    == val(d(3), d(4))
             IN  IF more.ok
                 THEN [more EXCEPT !.bytes =
                          <<v \div 65536, (v \div 256) % 256, v % 256>> \o @]
                 ELSE more

DecodeString(src) == DecodeFrom(src, 0)

\* strconv.Itoa of an offset below 100.
Itoa(n) == IF n < 10 THEN <<48 + n>> ELSE <<48 + (n \div 10), 48 + (n % 10)>>

\* fmt.Sprintf("Error on decoding base64: %s\n", err.Error()).
DecodeErrorText(at) ==
    <<69, 114, 114, 111, 114, 32, 111, 110, 32, 100, 101, 99, 111, 100, 105, 110, 103, 32, 98, 97, 115, 101, 54, 52, 58, 32>>
    \o <<105, 108, 108, 101, 103, 97, 108, 32, 98, 97, 115, 101, 54, 52, 32, 100, 97, 116, 97, 32, 97, 116, 32, 105, 110, 112, 117, 116, 32, 98, 121, 116, 101, 32>>
    \o Itoa(at) \o <<10>>

\* The calls on the http.ResponseWriter.
SetHeader(key, value) == [op |-> "Header.Set", key |-> key, value |-> value]

WriteHeader(code) == [op |-> "WriteHeader", code |-> code]

Write(data) == [op |-> "Write", data |-> data]

\* ResToHttp that never decodes the body.
ResToHttpUndecoded(res, keys) ==
    [i \in 1..Len(keys) |-> SetHeader(keys[i], res.Headers[keys[i]])]
    \o <<WriteHeader(res.StatusCode), Write(res.Body)>>

\* ResToHttp: the calls it makes on the writer, in order.  keys is the
\* order in which the range over res.Headers yields the keys.
ResToHttp(res, keys) ==
    LET dec == DecodeString(res.Body)
    IN  [i \in 1..Len(keys) |-> SetHeader(keys[i], res.Headers[keys[i]])]
        \o <<WriteHeader(res.StatusCode)>>
        \o (IF res.IsBase64Encoded
            THEN IF ~dec.ok THEN <<Write(DecodeErrorText(dec.at))>>
                 ELSE <<Write(dec.bytes)>>
            ELSE <<Write(res.Body)>>)

\* No response is being written.
NoWire == [res |-> Response(0, EmptyMap, <<>>), writes |-> <<>>]

(* ------------------------------ locking -------------------------------- *)

\* The zero value of sync.RWMutex: the number of shared holders, and the
\* state of the exclusive side ("pending" once Lock was called and holders
\* of the shared lock are still in, "held" once Lock returned).
NewMutex == [readers |-> 0, writer |-> "none"]

\* The goroutines that serve requests.
Procs == {"p", "q"}

\* A goroutine between two requests: where it is in ServeHTTP or
\* ServeLambda, the event it routes, the lookup's result and the node whose
\* leaf-handler map the result refers to, the shared locks it holds, the
\* callees it has invoked, the handler's error and the requests it has
\* finished.
IdleRequest ==
    [pc |-> "idle", event |-> <<>>, lk |-> NoLookup, node |-> <<>>, held |-> 0,
     calls |-> <<>>, err |-> FALSE, served |-> 0]

NoRequests == [p \in Procs |-> IdleRequest]

\* The goroutine that calls Handle while requests are served.
NoAdder == [pc |-> "idle", rt |-> Route("GET", <<>>)]

\* Whether the shared lock is taken around a read of the tree.
NeverLocks(t) == FALSE

\* if t.SafeAddRoutesWhileRunning { t.mutex.RLock() }
NeedsLock(t) == t.SafeAddRoutesWhileRunning

\* A handler that is invoked again when it has returned an error.
RetryOnError(err) == IF err THEN "serve" ELSE "done"

\* return lr.handler(ctx, req): whatever the handler returns, error
\* included, goes back to the transport.
AfterHandler(err) == "done"

\* The node whose leafHandler map a 405 result of lookup refers to: the node
\* of the first search, or of the search of the cleaned path.
leafNode(t, tree, request) ==
    LET path0   == request.Path
        pathLen == Len(path0)
        cut     == path0[pathLen] = "/" /\ pathLen > 1 /\ t.RedirectTrailingSlash
        path    == IF cut THEN Upto(path0, pathLen - 1) ELSE path0
        s1      == search(tree, <<>>, request.HTTPMethod, Segments(SearchPath(path)))
        s2      == search(tree, <<>>, request.HTTPMethod,
                          Segments(SearchPath(Clean(path))))
    IN  IF s1.found THEN s1.node ELSE s2.node

(* ------------------------------ actions -------------------------------- *)

Init ==
    /\ env \in {"socket", "lambda"}
    /\ mux = New
    /\ root = [key \in {<<>>} |-> NewNode(<<"/">>)]
    /\ routes = {}
    /\ last = NoRequest
    /\ groups = {RootGroup(env)}
    /\ regs = {}
    /\ wire = NoWire
    /\ mutex = NewMutex
    /\ reqs = NoRequests
    /\ adder = NoAdder

ConfigFields ==
    {"HeadCanUseGet", "RedirectTrailingSlash", "RedirectCleanPath",
     "RedirectBehavior", "RedirectMethodBehavior",
     "RemoveCatchAllTrailingSlash", "authorizer"}

\* The router is configured once, after New() and before routes are added:
\* a run changes one of the fields New() has set, or none.
CanConfigure(field) ==
    /\ routes = {}
    /\ last = NoRequest
    /\ \A f \in ConfigFields : mux[f] = New[f]

SetField(field, value) ==
    /\ CanConfigure(field)
    /\ value # New[field]
    /\ mux' = [mux EXCEPT ![field] = value]
    /\ UNCHANGED <<env, root, routes, last, auxVars>>

SetHeadCanUseGet == SetField("HeadCanUseGet", FALSE)

SetRedirectTrailingSlash == SetField("RedirectTrailingSlash", FALSE)

SetRedirectCleanPath == SetField("RedirectCleanPath", FALSE)

SetRedirectBehavior ==
    \E b \in {Redirect307, Redirect308, UseHandler} : SetField("RedirectBehavior", b)

SetRedirectMethodBehavior ==
    \E b \in {Redirect307, UseHandler} :
        SetField("RedirectMethodBehavior", [m \in {"GET"} |-> b])

SetRemoveCatchAllTrailingSlash == SetField("RemoveCatchAllTrailingSlash", TRUE)

SetAuthorizer == SetField("authorizer", TRUE)

\* Handle(method, path, handler) on the router's own group.
Handle ==
    \E rt \in RouteSet :
        /\ Cardinality(routes) < MaxRoutes
        /\ rt \notin routes
        /\ CanHandle(mux, env, root, rt)
        /\ root' = HandleTree(mux, env, root, rt)
        /\ routes' = routes \cup {rt}
        /\ last' = NoRequest
        /\ UNCHANGED <<env, mux, auxVars>>

ServeHTTP ==
    \E r \in HttpRequests :
    \E a \in IF mux.authorizer THEN AuthOutcomes ELSE {NoAuth} :
        /\ env = "socket"
        /\ last = NoRequest
        /\ last' = ServeHTTPResult(mux, root, r, a)
        /\ UNCHANGED <<env, mux, root, routes, auxVars>>

ServeLambda ==
    \E req \in LambdaEvents :
        /\ env = "lambda"
        /\ last = NoRequest
        /\ last' = ServeLambdaResult(mux, root, req)
        /\ UNCHANGED <<env, mux, root, routes, auxVars>>

\* The response has gone back through the transport; the router keeps nothing
\* of a request, and the next one is served.
Idle ==
    /\ last # NoRequest
    /\ last' = NoRequest
    /\ UNCHANGED <<env, mux, root, routes, auxVars>>

Next ==
    \/ SetHeadCanUseGet
    \/ SetRedirectTrailingSlash
    \/ SetRedirectCleanPath
    \/ SetRedirectBehavior
    \/ SetRedirectMethodBehavior
    \/ SetRemoveCatchAllTrailingSlash
    \/ SetAuthorizer
    \/ Handle
    \/ ServeHTTP
    \/ ServeLambda
    \/ Idle

Spec == Init /\ [][Next]_vars

(* ------------------------------ groups --------------------------------- *)

GroupPrefixes == {<<"/", "g">>, <<"/", "h">>}

\* The nestings of groups the caller builds.
GroupChains ==
    {<<>>, <<<<"/", "g">>>>, <<<<"/", "h">>>>, <<<<"/", "g">>, <<"/", "h">>>>}

\* The patterns registered through the groups.
GroupPatterns == {<<"/", "a">>, <<"/", "h">>, <<"/", ":", "x">>}

GroupReqPaths ==
    {<<"/", "a">>, <<"/", "g", "/", "a">>, <<"/", "h", "/", "a">>,
     <<"/", "g", "/", "h">>, <<"/", "g", "/", "h", "/", "a">>,
     <<"/", "g", "/", "h", "/", "h">>, <<"/", "h", "/", "g", "/", "a">>,
     <<"/", "g", "/", "a", "/">>}

\* The path of a group behind the path of the router's own group.
RelPath(g) == From(g.path, Len(GroupPath(env)))

\* The route a registration through group g adds to the router: Handle puts
\* the group's path before the pattern.
GroupRoute(g, m, q) == Route(m, RelPath(g) \o q)

\* group.NewGroup(prefix).
NewGroupCall ==
    \E g \in groups : \E prefix \in GroupPrefixes :
        /\ last = NoRequest
        /\ Append(g.chain, prefix) \in GroupChains
        /\ NewGroup(g, prefix) \notin groups
        /\ groups' = groups \cup {NewGroup(g, prefix)}
        /\ UNCHANGED <<env, mux, root, routes, last, regs, wire, runVars>>

\* group.GET(q, handler) or group.UsingContext().GET(q, handler).
GroupHandle ==
    \E g \in groups : \E q \in GroupPatterns : \E via \in Surfaces :
        LET rt == GroupRoute(g, "GET", q)
        IN  /\ Cardinality(routes) < MaxGroupRoutes
            /\ rt \notin routes
            /\ CanHandle(mux, env, root, rt)
            /\ root' = HandleTree(mux, env, root, rt)
            /\ routes' = routes \cup {rt}
            /\ regs' = regs \cup {[g |-> g, m |-> "GET", q |-> q, via |-> via]}
            /\ last' = NoRequest
            /\ UNCHANGED <<env, mux, groups, wire, runVars>>

GroupServeHTTP ==
    \E p \in GroupReqPaths : \E st \in Stages :
        /\ env = "socket"
        /\ last = NoRequest
        /\ last' = ServeHTTPResult(mux, root,
                        [Method |-> "GET", Path |-> <<"/">> \o st \o p,
                         RawQuery |-> <<>>], NoAuth)
        /\ UNCHANGED <<env, mux, root, routes, auxVars>>

GroupServeLambda ==
    \E p \in GroupReqPaths :
        /\ env = "lambda"
        /\ last = NoRequest
        /\ last' = ServeLambdaResult(mux, root,
                        [HTTPMethod |-> "GET", Path |-> p, Resource |-> p,
                         PathParameters |-> EmptyMap,
                         QueryStringParameters |-> EmptyMap])
        /\ UNCHANGED <<env, mux, root, routes, auxVars>>

GroupNext ==
    \/ NewGroupCall
    \/ GroupHandle
    \/ GroupServeHTTP
    \/ GroupServeLambda
    \/ Idle

GroupSpec == Init /\ [][GroupNext]_vars

(* ------------------------- serializer runs ----------------------------- *)

\* The bytes of the bodies handlers encode.
PlainBytes == {0, 65, 255}

\* Largest number of bytes of such a body.
MaxBodyLen == 2

ByteSeqs == UNION {[1..n -> PlainBytes] : n \in 0..MaxBodyLen}

\* encoding/base64's alphabet, as ASCII codes.
B64Alphabet ==
    [i \in 0..63 |->
        IF i < 26 THEN 65 + i
        ELSE IF i < 52 THEN 71 + i
        ELSE IF i < 62 THEN i - 4
        ELSE IF i = 62 THEN 43 ELSE 47]

RECURSIVE EncodeToString(_)
\* base64.StdEncoding.EncodeToString: what a handler puts in the body of a
\* response it flags as base64-encoded.
EncodeToString(b) ==
    IF b = <<>> THEN <<>>
    ELSE IF Len(b) = 1
    THEN <<B64Alphabet[b[1] \div 4], B64Alphabet[(b[1] % 4) * 16], PadChar, PadChar>>
    ELSE IF Len(b) = 2
    THEN <<B64Alphabet[b[1] \div 4],
           B64Alphabet[(b[1] % 4) * 16 + (b[2] \div 16)],
           B64Alphabet[(b[2] % 16) * 4], PadChar>>
    ELSE <<B64Alphabet[b[1] \div 4],
           B64Alphabet[(b[1] % 4) * 16 + (b[2] \div 16)],
           B64Alphabet[(b[2] % 16) * 4 + (b[3] \div 64)],
           B64Alphabet[b[3] % 64]>>
         \o EncodeToString(SubSeq(b, 4, Len(b)))

\* Bodies that are not base64: a lone character, short or misplaced padding,
\* a character outside the alphabet, text after the padding.
InvalidBodies ==
    {<<81>>, <<81, 81, 61>>, <<81, 61, 61, 61>>, <<33, 65, 65, 65>>,
     <<81, 85, 74, 68, 81>>, <<81, 81, 61, 61, 81, 81, 61, 61>>,
     <<79, 75>>, <<81, 85, 32, 61>>}

\* The responses the handlers and the router's own collaborators return.
WireResponses ==
    {[StatusCode |-> c, Headers |-> h, Body |-> b, IsBase64Encoded |-> f] :
        c \in {200, 404},
        h \in {EmptyMap, [k \in {"Location"} |-> <<"/", "a">>],
               [k \in {"Allow", "X"} |-> <<"GET">>]},
        b \in {EncodeToString(x) : x \in ByteSeqs} \cup InvalidBodies,
        f \in BOOLEAN}

\* The orders in which a range over a map may yield its keys.
KeyOrders(m) ==
    {ks \in [1..Cardinality(DOMAIN m) -> DOMAIN m] :
        \A i, j \in 1..Len(ks) : ks[i] = ks[j] => i = j}

WireInit ==
    /\ env = "socket"
    /\ mux = New
    /\ root = [key \in {<<>>} |-> NewNode(<<"/">>)]
    /\ routes = {}
    /\ last = NoRequest
    /\ groups = {RootGroup(env)}
    /\ regs = {}
    /\ wire \in {[res |-> r, writes |-> <<>>] : r \in WireResponses}
    /\ mutex = NewMutex
    /\ reqs = NoRequests
    /\ adder = NoAdder

\* ResToHttp(w, req, res), the last step of ServeHTTP.
ResToHttpCall ==
    \E keys \in KeyOrders(wire.res.Headers) :
        /\ wire.writes = <<>>
        /\ wire' = [wire EXCEPT !.writes = ResToHttp(wire.res, keys)]
        /\ UNCHANGED <<env, mux, root, routes, last, groupVars, runVars>>

WireNext == ResToHttpCall

WireSpec == WireInit /\ [][WireNext]_vars

(* ------------------------------ claims --------------------------------- *)

\* The paths at which a pattern is served: behind a stage segment on the
\* socket transport, as written on Lambda.
PathsOf(p) ==
    IF env = "socket" THEN {<<"/">> \o st \o p : st \in Stages} ELSE {p}

EndsInSlash(p) == Len(p) > 1 /\ p[Len(p)] = "/"

\* A path with its trailing slash added or removed.
SlashToggled(path) ==
    IF EndsInSlash(path) THEN Upto(path, Len(path) - 1) ELSE path \o <<"/">>

IsLiteral(p) == \A i \in 1..Len(p) : p[i] \notin {":", "*"}

\* A lookup has answered the last request without panicking.
Looked == last # NoRequest /\ ~last.lookup.panicked

\* The route whose handler the last lookup resolved to.
ResolvedTo(rt) ==
    /\ last.lookup.result.StatusCode = 200
    /\ last.lookup.result.handler = HandlerOf(rt)

\* C1 (as claimed): specificity precedence.  When the table holds a literal
\* route and a wildcard route, a lookup of the literal route's path with its
\* method resolves to the literal route's handler.
C1_SpecificityPrecedence ==
    \A rt \in routes :
        (/\ IsLiteral(rt.p)
         /\ \E w \in routes : ~IsLiteral(w.p)
         /\ Looked
         /\ last.event.HTTPMethod = rt.m
         /\ last.event.Path \in PathsOf(rt.p))
        => ResolvedTo(rt)

\* The last lookup answered with a redirect to the literal path of rt with
\* its trailing slash added or removed, which another registered route spells.
SlashRedirect(rt) ==
    /\ \E o \in routes : o.p = SlashToggled(rt.p)
    /\ last.lookup.result.StatusCode \in {301, 307, 308}
    /\ last.lookup.result.handler.kind = "redirect"
    /\ last.lookup.result.handler.newPath = SlashToggled(last.event.Path)

\* C1 (amended): the lookup of a registered literal route's path resolves to
\* that route's handler, or, when the same literal path is also registered
\* with the other trailing slash, to a redirect to that spelling; it never
\* resolves to a wildcard route's handler.
C1_SpecificityOrSlashRedirect ==
    \A rt \in routes :
        (/\ IsLiteral(rt.p)
         /\ \E w \in routes : ~IsLiteral(w.p)
         /\ Looked
         /\ last.event.HTTPMethod = rt.m
         /\ last.event.Path \in PathsOf(rt.p))
        => ResolvedTo(rt) \/ SlashRedirect(rt)

\* C1 witness: GET /a/:x and GET /a/b are both registered and GET /a/b was
\* looked up and resolved to the handler of /a/b.
C1_Witness ==
    /\ {Route("GET", PatA_X), Route("GET", PatA_B)} \subseteq routes
    /\ Looked
    /\ last.event.HTTPMethod = "GET"
    /\ last.event.Path \in PathsOf(PatA_B)
    /\ ResolvedTo(Route("GET", PatA_B))

RECURSIVE Match(_, _)
\* Whether the segments of a path match the segments of a pattern one for
\* one, and the value each name of the pattern then stands for: a literal
\* matches itself, ":name" one non-empty segment, "*name" what remains.
Match(pat, segs) ==
    IF pat = <<>> THEN [ok |-> segs = <<>>, binds |-> EmptyMap]
    ELSE IF segs = <<>> THEN [ok |-> FALSE, binds |-> EmptyMap]
    ELSE IF SegKey(Head(pat)) = CatchAll
    THEN [ok |-> Join(segs) # <<>>,
          binds |-> [k \in {SegName(Head(pat))} |-> Join(segs)]]
    ELSE LET rest == Match(Tail(pat), Tail(segs))
             name == SegName(Head(pat))
         IN  IF SegKey(Head(pat)) = Wild
             THEN [ok |-> Head(segs) # <<>> /\ rest.ok,
                   binds |-> [k \in DOMAIN rest.binds \cup {name} |->
                                IF k = name THEN Head(segs) ELSE rest.binds[k]]]
             ELSE [ok |-> Head(segs) = Head(pat) /\ rest.ok, binds |-> rest.binds]

\* A path matches a registered pattern exactly: segment for segment, and
\* with a trailing slash exactly when the pattern has one.
ExactMatch(p, path) ==
    LET m == Match(Segments(From(FullPath(env, p), 1)), Segments(From(path, 1)))
    IN  [m EXCEPT !.ok = m.ok /\ path # <<>> /\ (EndsInSlash(path) <=> EndsInSlash(p))]

DistinctNames(p) ==
    LET names == PatternNames(Segments(From(FullPath(env, p), 1)))
    IN  \A i, j \in 1..Len(names) : names[i] = names[j] => i = j

\* Two registered patterns overlap at a path when the other one matches it
\* too, as it is or but for a trailing slash.
Overlap(o, rt, path) ==
    /\ o.p # rt.p
    /\ \/ ExactMatch(o.p, path).ok
       \/ ExactMatch(o.p, SlashToggled(path)).ok

\* C2: a lookup of a path that exactly matches a registered pattern whose
\* names are distinct, and that no other registered pattern overlaps, returns
\* 200 with the registered handler and binds each name of the pattern to the
\* value captured at its position.
C2_ParamsInDeclarationOrder ==
    \A rt \in routes :
        LET m == ExactMatch(rt.p, last.event.Path)
        IN  (/\ Looked
             /\ last.event.HTTPMethod = rt.m
             /\ DistinctNames(rt.p)
             /\ m.ok
             /\ \A o \in routes : ~Overlap(o, rt, last.event.Path))
            => /\ ResolvedTo(rt)
               /\ last.lookup.result.params = m.binds

\* C2 witness: a lookup resolved to a route with two names or more and bound
\* them to different values.
C2_Witness ==
    \E rt \in routes :
        /\ Looked
        /\ ResolvedTo(rt)
        /\ last.event.HTTPMethod = rt.m
        /\ ExactMatch(rt.p, last.event.Path).ok
        /\ Cardinality(DOMAIN last.lookup.result.params) >= 2
        /\ \E a, b \in DOMAIN last.lookup.result.params :
                last.lookup.result.params[a] # last.lookup.result.params[b]

\* The callee ServeLookupResult handed the last request to.
Callee == last.calls[Len(last.calls)]

\* The words of a space-separated list.
Words(v) == [i \in 1..((Len(v) + 1) \div 2) |-> v[2 * i - 1]]

Rank(m) == CHOOSE i \in 1..Len(MethodOrder) : MethodOrder[i] = m

\* The node a registered route ends at.
NodeOf(rt) == PatternKey(HandleSegs(mux, env, rt.p))

\* The methods registered at a node: those of the routes that end there, and
\* HEAD where a GET route stands in for it.
RegisteredAt(key) ==
    {rt.m : rt \in {r \in routes : NodeOf(r) = key}}
    \cup (IF mux.HeadCanUseGet /\ \E r \in routes : NodeOf(r) = key /\ r.m = "GET"
          THEN {"HEAD"} ELSE {})

\* C3: a request that matches a node with handlers but none for its method
\* is answered by the method-not-allowed collaborator with 405 and an Allow
\* value that lists exactly the methods registered at the node, each once,
\* in ascending order; no route handler is invoked.
C3_MethodNotAllowed ==
    (Looked /\ last.lookup.result.StatusCode = 405)
    => /\ Callee = "MethodNotAllowedHandler"
       /\ \A i \in 1..Len(last.calls) : last.calls[i] # "handler"
       /\ last.response.StatusCode = 405
       /\ LET allow == last.response.Headers["Allow"]
              words == Words(allow)
          IN  /\ \A i \in 1..Len(allow) : i % 2 = 0 => allow[i] = " "
              /\ \A i \in 1..(Len(words) - 1) : Rank(words[i]) < Rank(words[i + 1])
              /\ last.event.HTTPMethod \notin {words[i] : i \in 1..Len(words)}
              /\ \E key \in DOMAIN root :
                    /\ root[key].leafHandler = last.lookup.result.leafHandler
                    /\ {words[i] : i \in 1..Len(words)} = RegisteredAt(key)

\* C3 witness: a 405 whose Allow value lists two methods.
C3_Witness ==
    /\ Looked
    /\ last.lookup.result.StatusCode = 405
    /\ Callee = "MethodNotAllowedHandler"
    /\ Len(Words(last.response.Headers["Allow"])) >= 2

RECURSIVE RawQueryText(_)
\* The text of a query string: key=value pairs joined by "&".
RawQueryText(q) ==
    IF q = <<>> THEN <<>>
    ELSE <<q[1][1], "=">> \o q[1][2]
         \o (IF Len(q) > 1 THEN <<"&">> \o RawQueryText(Tail(q)) ELSE <<>>)

\* The query string the last request came with, on either transport.
RequestQuery ==
    IF last.transport = "http" THEN RawQueryText(last.request.RawQuery)
    ELSE LET qs == last.request.QueryStringParameters
         IN  IF DOMAIN qs = {} THEN <<>>
             ELSE LET k == CHOOSE k \in DOMAIN qs : TRUE
                  IN  <<k, "=">> \o qs[k]

\* A path with the query string the last request came with.
WithQuery(path) ==
    IF RequestQuery = <<>> THEN path ELSE path \o <<"?">> \o RequestQuery

\* The redirect code configured for a method: the method's own behaviour
\* before the router's.
ConfiguredBehavior(m) ==
    IF m \in DOMAIN mux.RedirectMethodBehavior
    THEN mux.RedirectMethodBehavior[m] ELSE mux.RedirectBehavior

ConfiguredCode(m) ==
    IF ConfiguredBehavior(m) = Redirect301 THEN 301
    ELSE IF ConfiguredBehavior(m) = Redirect307 THEN 307
    ELSE 308

\* The last request asked, with the method of rt, for the literal path of rt
\* with a trailing slash added, and no route is registered with that slash.
SlashAdded(rt) ==
    /\ IsLiteral(rt.p)
    /\ ~EndsInSlash(rt.p)
    /\ \A o \in routes : o.p # SlashToggled(rt.p)
    /\ Looked
    /\ last.request # <<>>
    /\ last.event.HTTPMethod = rt.m
    /\ last.event.Path \in PathsOf(SlashToggled(rt.p))

\* C4 (as claimed): with trailing-slash redirection enabled, a request for
\* /a/b/ when only /a/b is registered is answered with a redirect of the
\* configured code whose Location is /a/b followed by the request's query
\* string; with redirection disabled it is served by the route's handler if
\* the node's addSlash is set and is NotFound otherwise.
C4_TrailingSlashRedirect ==
    \A rt \in routes :
        SlashAdded(rt) =>
            /\ (mux.RedirectTrailingSlash /\ ConfiguredBehavior(rt.m) # UseHandler)
               => /\ Callee = "redirectHandler"
                  /\ last.response.StatusCode = ConfiguredCode(rt.m)
                  /\ last.response.Headers["Location"]
                        = WithQuery(SlashToggled(last.event.Path))
            /\ ~mux.RedirectTrailingSlash
               => IF root[NodeOf(rt)].addSlash
                  THEN Callee = "handler" /\ ResolvedTo(rt)
                  ELSE Callee = "NotFoundHandler"

\* What the code does for the request of C4: the same, but the Location is
\* the corrected path alone.
C4_RedirectDropsQuery ==
    \A rt \in routes :
        SlashAdded(rt) =>
            /\ (mux.RedirectTrailingSlash /\ ConfiguredBehavior(rt.m) # UseHandler)
               => /\ Callee = "redirectHandler"
                  /\ last.response.StatusCode = ConfiguredCode(rt.m)
                  /\ last.response.Headers["Location"] = SlashToggled(last.event.Path)
            /\ ~mux.RedirectTrailingSlash
               => IF root[NodeOf(rt)].addSlash
                  THEN Callee = "handler" /\ ResolvedTo(rt)
                  ELSE Callee = "NotFoundHandler"

\* A request for /a/b/ with a query string was redirected.
C4_Witness ==
    \E rt \in routes :
        /\ SlashAdded(rt)
        /\ RequestQuery # <<>>
        /\ Callee = "redirectHandler"

\* The stage segment of a socket request's path.
StageOf(path) == Segments(From(path, 1))[1]

\* C5: on the socket transport, the handler of a matched request /S/p
\* receives S as the stage, the StageVariables entry of S as the stage
\* variables, and path parameters without the key __stage__.
C5_StageInjection ==
    (Looked /\ last.transport = "http" /\ Callee = "handler")
    => LET S == StageOf(last.request.Path)
       IN  /\ last.event.Stage = S
           /\ last.event.StageVariables = StageVariables[S]
           /\ StageName \notin DOMAIN last.event.PathParameters

\* C5 witness: a handler was served a request of stage t that bound a path
\* parameter, and its stage variables are those of t, not those of s.
C5_Witness ==
    /\ Looked
    /\ last.transport = "http"
    /\ Callee = "handler"
    /\ StageOf(last.request.Path) = <<"t">>
    /\ last.event.StageVariables = StageVariables[<<"t">>]
    /\ last.event.StageVariables # StageVariables[<<"s">>]
    /\ DOMAIN last.event.PathParameters # {}

\* C6 (as claimed): a configured authorizer hook is invoked only after the
\* lookup produced a matched handler, never for a NotFound, MethodNotAllowed
\* or redirect outcome, and before the handler.
C6_AuthorizerAfterRouting ==
    (\E i \in 1..Len(last.calls) : last.calls[i] = "authorizer")
    => /\ last.lookup.found
       /\ last.lookup.result.StatusCode = 200
       /\ last.calls = <<"lookup", "authorizer", "handler">>

\* What the code does: once configured, the hook is invoked for every
\* request, after the lookup and before whatever serves the lookup result.
C6_AuthorizerAlways ==
    (Looked /\ last.transport = "http" /\ mux.authorizer)
    => /\ Len(last.calls) = 3
       /\ last.calls[1] = "lookup"
       /\ last.calls[2] = "authorizer"
       /\ last.calls[3] \in {"handler", "redirectHandler", "NotFoundHandler",
                             "MethodNotAllowedHandler"}

\* The hook ran for a request that matched no route.
C6_Witness ==
    /\ Looked
    /\ last.calls = <<"lookup", "authorizer", "NotFoundHandler">>

\* C7 (as claimed): fail-open authorization.  When the hook fails, the
\* matched handler still runs and its request carries an empty authorizer
\* context; when it succeeds, the request carries the context it returned.
C7_FailOpenEmptyContext ==
    (Looked /\ last.transport = "http" /\ mux.authorizer
        /\ last.lookup.result.StatusCode = 200)
    => /\ Callee = "handler"
       /\ last.auth.err => last.event.Authorizer = EmptyMap
       /\ ~last.auth.err => last.event.Authorizer = last.auth.Context

\* What the code does: the handler runs, and its request carries whatever
\* context the hook returned, error or not.
C7_FailOpenHookContext ==
    (Looked /\ last.transport = "http" /\ mux.authorizer
        /\ last.lookup.result.StatusCode = 200)
    => /\ Callee = "handler"
       /\ last.event.Authorizer = last.auth.Context

\* The hook failed and returned a context all the same, before a handler.
C7_Witness ==
    /\ Looked
    /\ Callee = "handler"
    /\ last.auth.err
    /\ last.auth.Context # EmptyMap

RECURSIVE BuildTree(_, _, _)
\* The tree of a router that runs in environment e and has registered the
\* routes rs: the same program, deployed behind the other transport.
BuildTree(t, e, rs) ==
    IF rs = {} THEN [key \in {<<>>} |-> NewNode(<<"/">>)]
    ELSE LET rt == CHOOSE r \in rs : TRUE
         IN  HandleTree(t, e, BuildTree(t, e, rs \ {rt}), rt)

\* The tree does not depend on the order the routes were registered in.
BuildTreeIsRoot == BuildTree(mux, env, routes) = root

\* The routing decision of a served request: the outcome, and the handler
\* when a route matched.
Decision(served) ==
    LET callee == served.calls[Len(served.calls)]
    IN  IF served.lookup.panicked THEN [outcome |-> "Panic", handler |-> NoHandler]
        ELSE IF callee = "handler"
        THEN [outcome |-> "Matched", handler |-> served.handler]
        ELSE IF callee = "redirectHandler"
        THEN [outcome |-> "Redirect", handler |-> NoHandler]
        ELSE IF callee = "MethodNotAllowedHandler"
        THEN [outcome |-> "MethodNotAllowed", handler |-> NoHandler]
        ELSE [outcome |-> "NotFound", handler |-> NoHandler]

\* The last request arrived through ServeLambda with Path = Resource.
PlainEvent ==
    /\ last.transport = "lambda"
    /\ last.request.Path = last.request.Resource
    /\ last.request.PathParameters = EmptyMap

\* The same method and path through the socket transport, behind stage st.
SocketTwin(st) ==
    ServeHTTPResult(mux, BuildTree(mux, "socket", routes),
                    [Method |-> last.request.HTTPMethod,
                     Path |-> <<"/">> \o st \o last.request.Path,
                     RawQuery |-> <<>>],
                    NoAuth)

\* C8 (as claimed): transport equivalence.  A request of method m and path
\* p that arrives through ServeLambda with Path = Resource = p reaches the
\* routing decision it reaches through ServeHTTP behind a stage segment.
C8_TransportEquivalence ==
    PlainEvent => \A st \in Stages : Decision(last) = Decision(SocketTwin(st))

\* What the code does: the decisions agree for the paths without "+", "{"
\* and "}", which UseTemplate leaves as they are.
C8_EquivalentWithoutTemplateSyntax ==
    (/\ PlainEvent
     /\ \A i \in 1..Len(last.request.Path) :
            last.request.Path[i] \notin {"+", "{", "}"})
    => \A st \in Stages : Decision(last) = Decision(SocketTwin(st))

\* A path with "+" was routed through ServeLambda while a route spells it.
C8_Witness ==
    /\ PlainEvent
    /\ last.request.Path = PatPlus
    /\ Route("GET", PatPlus) \in routes
    /\ last.request.HTTPMethod = "GET"
    /\ Decision(last).outcome = "NotFound"
    /\ Decision(SocketTwin(<<"s">>)).outcome = "Matched"

\* The catch-all route of the inputs, and the name it captures under.
FilesRoute == Route("GET", PatFiles)

RestName == <<"r">>

\* The last request is a GET for a path under the prefix of the catch-all
\* route, which is registered.
UnderFiles ==
    /\ FilesRoute \in routes
    /\ Looked
    /\ last.event.HTTPMethod = "GET"
    /\ \E pre \in PathsOf(<<"/", "f", "/">>) :
            /\ Len(last.event.Path) >= Len(pre)
            /\ Upto(last.event.Path, Len(pre)) = pre

\* What follows the prefix in the path of the last request.
Remainder ==
    LET pre == CHOOSE pre \in PathsOf(<<"/", "f", "/">>) :
                    /\ Len(last.event.Path) >= Len(pre)
                    /\ Upto(last.event.Path, Len(pre)) = pre
    IN  From(last.event.Path, Len(pre))

\* C9 (as claimed): a catch-all route /f/*r matches every path /f/<r> with a
\* non-empty remainder r, whatever separators r holds, and captures all of
\* r as the one parameter; /f/ is matched by the route if and only if the
\* catch-all matches zero-length remainders.
C9_CatchAllWholeRemainder ==
    UnderFiles =>
        IF Remainder # <<>>
        THEN /\ ResolvedTo(FilesRoute)
             /\ RestName \in DOMAIN last.lookup.result.params
             /\ last.lookup.result.params[RestName] = Remainder
        ELSE ResolvedTo(FilesRoute) <=> CatchAllMatchesEmpty

\* What the code does: lookup cuts the trailing slash of the path before the
\* search when RedirectTrailingSlash is set, so the slash a remainder ends
\* in is not captured, and with RemoveCatchAllTrailingSlash such a request
\* is redirected.
C9_CatchAllCutRemainder ==
    UnderFiles =>
        LET cut == mux.RedirectTrailingSlash /\ EndsInSlash(last.event.Path)
            r   == IF cut THEN Upto(Remainder, Len(Remainder) - 1) ELSE Remainder
        IN  IF Remainder = <<>>
            THEN ResolvedTo(FilesRoute) <=> CatchAllMatchesEmpty
            ELSE IF cut /\ mux.RemoveCatchAllTrailingSlash
                        /\ ConfiguredBehavior("GET") # UseHandler
            THEN Callee = "redirectHandler"
            ELSE /\ ResolvedTo(FilesRoute)
                 /\ last.lookup.result.params[RestName] = r

\* A remainder that ends in a separator was captured without it.
C9_Witness ==
    /\ UnderFiles
    /\ Remainder = <<"a", "/">>
    /\ ResolvedTo(FilesRoute)
    /\ last.lookup.result.params[RestName] = <<"a">>

\* The last request asks with method m for a path that exactly matches the
\* pattern p, which no registered route of another pattern overlaps.
Asked(m, p) ==
    /\ Looked
    /\ last.event.HTTPMethod = m
    /\ ExactMatch(p, last.event.Path).ok
    /\ \A o \in routes : ~Overlap(o, Route(m, p), last.event.Path)

\* C10: HEAD fallback.  Where a path has a GET handler and no HEAD handler, a
\* HEAD request is served by the GET handler with HeadCanUseGet and answered
\* 405 with no handler run without it; where a HEAD handler is registered
\* too, HEAD requests are served by it in both settings and GET requests
\* by the GET handler.
C10_HeadFallback ==
    \A rt \in routes :
        rt.m = "GET" =>
            LET head == Route("HEAD", rt.p)
            IN  /\ (Asked("HEAD", rt.p) /\ head \notin routes /\ mux.HeadCanUseGet)
                   => Callee = "handler" /\ ResolvedTo(rt)
                /\ (Asked("HEAD", rt.p) /\ head \notin routes /\ ~mux.HeadCanUseGet)
                   => /\ Callee = "MethodNotAllowedHandler"
                      /\ last.response.StatusCode = 405
                      /\ \A i \in 1..Len(last.calls) : last.calls[i] # "handler"
                /\ (Asked("HEAD", rt.p) /\ head \in routes)
                   => Callee = "handler" /\ ResolvedTo(head)
                /\ (Asked("GET", rt.p) /\ head \in routes)
                   => Callee = "handler" /\ ResolvedTo(rt)

\* C10 witness: a HEAD request was served by the handler of a GET route
\* that has no HEAD route beside it.
C10_Witness ==
    \E rt \in routes :
        /\ rt.m = "GET"
        /\ Route("HEAD", rt.p) \notin routes
        /\ mux.HeadCanUseGet
        /\ Asked("HEAD", rt.p)
        /\ Callee = "handler"
        /\ ResolvedTo(rt)

\* A HEAD request was answered 405 without the fallback.
C10_WitnessNoFallback ==
    \E rt \in routes :
        /\ rt.m = "GET"
        /\ ~mux.HeadCanUseGet
        /\ Asked("HEAD", rt.p)
        /\ Callee = "MethodNotAllowedHandler"

\* A HEAD request was served by a HEAD handler registered beside a GET one.
C10_WitnessHeadRoute ==
    \E rt \in routes :
        /\ rt.m = "GET"
        /\ Route("HEAD", rt.p) \in routes
        /\ Asked("HEAD", rt.p)
        /\ ResolvedTo(Route("HEAD", rt.p))

RECURSIVE ChainPath(_)
\* The prefixes of a nesting of groups, one after the other.
ChainPath(chain) ==
    IF chain = <<>> THEN <<>> ELSE Head(chain) \o ChainPath(Tail(chain))

\* The route a registration stands for: its pattern behind all the prefixes
\* of the groups that enclose it.
RouteOfReg(reg) == Route(reg.m, ChainPath(reg.g.chain) \o reg.q)

\* C11: a route registered with pattern q through a nested group is matched
\* at the prefixes of all enclosing groups followed by q and at no other
\* path, and the routes registered through the plain group and through its
\* UsingContext() view stand in the same trie and are served by the router.
C11_GroupPrefixComposition ==
    \A reg \in regs :
        LET rt == RouteOfReg(reg)
        IN  /\ rt \in routes
            /\ NodeOf(rt) \in DOMAIN root
            /\ reg.m \in DOMAIN root[NodeOf(rt)].leafHandler
            /\ root[NodeOf(rt)].leafHandler[reg.m] = HandlerOf(rt)
            /\ Asked(reg.m, rt.p) => Callee = "handler" /\ ResolvedTo(rt)
            /\ (Looked /\ ResolvedTo(rt)) => ExactMatch(rt.p, last.event.Path).ok

\* C11 witness: a route registered through the UsingContext() view of a
\* group nested two deep was served at its composed path, while a route
\* registered through a plain group stands in the same trie.
C11_Witness ==
    \E reg, other \in regs :
        /\ reg.via = "context"
        /\ other.via = "plain"
        /\ Len(reg.g.chain) = 2
        /\ Asked(reg.m, RouteOfReg(reg).p)
        /\ Callee = "handler"
        /\ ResolvedTo(RouteOfReg(reg))

\* ResToHttp has written the response.
Written == wire.writes # <<>>

\* The data of the Write calls, in order.
WrittenData ==
    LET ws == SelectSeq(wire.writes, LAMBDA w : w.op = "Write")
    IN  [i \in 1..Len(ws) |-> ws[i].data]

\* C12: the serializer sets the headers, then writes the status code, then
\* the body.  A body not flagged base64 is written unchanged, a flagged body
\* that is valid base64 is written decoded, and for a flagged body that is
\* not valid base64 an error text is written after the response's own
\* status code.
C12_SocketSerializer ==
    Written =>
        LET n  == Len(wire.writes)
            hs == Cardinality(DOMAIN wire.res.Headers)
        IN  /\ n = hs + 2
            /\ \A i \in 1..hs : wire.writes[i].op = "Header.Set"
            /\ \A k \in DOMAIN wire.res.Headers :
                  \E i \in 1..hs : wire.writes[i] = SetHeader(k, wire.res.Headers[k])
            /\ wire.writes[hs + 1] = WriteHeader(wire.res.StatusCode)
            /\ wire.writes[n].op = "Write"
            /\ ~wire.res.IsBase64Encoded => WrittenData = <<wire.res.Body>>
            /\ wire.res.IsBase64Encoded =>
                  /\ \A b \in ByteSeqs :
                        wire.res.Body = EncodeToString(b) => WrittenData = <<b>>
                  /\ wire.res.Body \in InvalidBodies =>
                        /\ Len(WrittenData) = 1
                        /\ Len(WrittenData[1]) > 26
                        /\ SubSeq(WrittenData[1], 1, 5) = <<69, 114, 114, 111, 114>>
                        /\ WrittenData[1] # wire.res.Body

\* C12 witness: a flagged body of two bytes was written decoded, behind two
\* headers.
C12_Witness ==
    /\ Written
    /\ wire.res.IsBase64Encoded
    /\ wire.res.Body = EncodeToString(<<65, 255>>)
    /\ WrittenData = <<<<65, 255>>>>
    /\ Cardinality(DOMAIN wire.res.Headers) = 2

\* A flagged body that is not base64 was answered with the error text.
C12_WitnessInvalid ==
    /\ Written
    /\ wire.res.IsBase64Encoded
    /\ wire.res.Body \in InvalidBodies
    /\ wire.res.StatusCode = 404
    /\ wire.writes[Len(wire.writes) - 1] = WriteHeader(404)

\* The keys of a query string, and the values of a key in their order.
QueryKeys(q) == {q[i][1] : i \in 1..Len(q)}

ValuesOf(q, key) ==
    LET hits == SelectSeq(q, LAMBDA kv : kv[1] = key)
    IN  [i \in 1..Len(hits) |-> hits[i][2]]

\* A socket request was turned into an event.
Adapted == last.transport = "http" /\ last.event # <<>>

\* C13 (as claimed): the query-parameter mapping of the event built from a
\* socket request binds every key of the query string to the last of its
\* values.
C13_LastValueWins ==
    Adapted =>
        /\ DOMAIN last.event.QueryStringParameters = QueryKeys(last.request.RawQuery)
        /\ \A key \in QueryKeys(last.request.RawQuery) :
              LET vs == ValuesOf(last.request.RawQuery, key)
              IN  last.event.QueryStringParameters[key] = vs[Len(vs)]

\* What the code does: every key is bound to the first of its values.
C13_FirstValueWins ==
    Adapted =>
        /\ DOMAIN last.event.QueryStringParameters = QueryKeys(last.request.RawQuery)
        /\ \A key \in QueryKeys(last.request.RawQuery) :
              last.event.QueryStringParameters[key]
                  = ValuesOf(last.request.RawQuery, key)[1]

\* A request whose query string holds a key twice, with two values, was
\* turned into an event.
C13_Witness ==
    /\ Adapted
    /\ \E key \in QueryKeys(last.request.RawQuery) :
          LET vs == ValuesOf(last.request.RawQuery, key)
          IN  Len(vs) = 2 /\ vs[1] # vs[2]

(* --------------------------- search runs ------------------------------- *)

\* Routing tables in which a literal child can lead to a dead end below a
\* node that also has a wildcard child or a catch-all child.
DeepRoutes ==
    {Route("GET", PatA_B),
     Route("GET", <<"/", "a", "/", ":", "x", "/", "b">>),
     Route("GET", PatX_Y),
     Route("GET", <<"/", ":", "x", "/", ":", "y", "/", "*", "r">>),
     Route("GET", <<"/", "*", "r">>)}

DeepPaths ==
    {<<"/", "a">>, PatA_B, <<"/", "a", "/", "c">>, <<"/", "c", "/", "b">>,
     <<"/", "a", "/", "c", "/", "b">>, <<"/", "a", "/", "c", "/", "d">>,
     <<"/", "a", "/", "b", "/", "b">>, <<"/", "a", "/", "b", "/", "c", "/", "d">>,
     <<"/", "c", "/", "d", "/", "a", "/", "b">>}

\* The router after New() and the registration of some of the routes.
DeepInit ==
    /\ env \in {"socket", "lambda"}
    /\ mux = New
    /\ routes \in SUBSET DeepRoutes
    /\ root = BuildTree(mux, env, routes)
    /\ last = NoRequest
    /\ groups = {RootGroup(env)}
    /\ regs = {}
    /\ wire = NoWire
    /\ mutex = NewMutex
    /\ reqs = NoRequests
    /\ adder = NoAdder

DeepServeHTTP ==
    \E p \in DeepPaths :
        /\ env = "socket"
        /\ last = NoRequest
        /\ last' = ServeHTTPResult(mux, root,
                        [Method |-> "GET", Path |-> <<"/", "s">> \o p,
                         RawQuery |-> <<>>], NoAuth)
        /\ UNCHANGED <<env, mux, root, routes, auxVars>>

DeepServeLambda ==
    \E p \in DeepPaths :
        /\ env = "lambda"
        /\ last = NoRequest
        /\ last' = ServeLambdaResult(mux, root,
                        [HTTPMethod |-> "GET", Path |-> p, Resource |-> p,
                         PathParameters |-> EmptyMap,
                         QueryStringParameters |-> EmptyMap])
        /\ UNCHANGED <<env, mux, root, routes, auxVars>>

DeepNext == DeepServeHTTP \/ DeepServeLambda

DeepSpec == DeepInit /\ [][DeepNext]_vars

\* The registered routes of the request's method whose pattern matches the
\* whole path of the last request.
Matching ==
    {rt \in routes : /\ rt.m = last.event.HTTPMethod
                     /\ ExactMatch(rt.p, last.event.Path).ok}

\* C14: backtracking completeness.  When a registered pattern matches the
\* whole path, the lookup is never NotFound, also when the literal child
\* tried first leads to a dead end; a lookup that resolves to a handler
\* resolves to a route whose pattern matches, and the parameters are the
\* values that pattern captures, with nothing left of an abandoned branch.
C14_BacktrackingComplete ==
    (Looked /\ Matching # {})
    => /\ last.lookup.result.StatusCode # 404
       /\ Callee # "NotFoundHandler"
       /\ last.lookup.result.StatusCode = 200 =>
             \E rt \in Matching :
                /\ ResolvedTo(rt)
                /\ last.lookup.result.params = ExactMatch(rt.p, last.event.Path).binds

\* The last request went down a literal branch as far as the segment
\* before the last without a registered route spelling the path out.
DeadEnd(path) ==
    /\ Route("GET", <<"/", "a", "/", ":", "x", "/", "b">>) \in routes
    /\ path \in PathsOf(<<"/", "a", "/", "c", "/", "d">>)

\* C14 witness: /a/c/d was asked with /a/:x/b registered, so that the
\* literal a and the wildcard below it were followed to a dead end, and the
\* request was resolved through the wildcards of the root.
C14_Witness ==
    /\ Looked
    /\ DeadEnd(last.event.Path)
    /\ ResolvedTo(Route("GET", <<"/", ":", "x", "/", ":", "y", "/", "*", "r">>))
    /\ last.lookup.result.params[<<"x">>] = <<"a">>
    /\ last.lookup.result.params[<<"r">>] = <<"d">>

(* -------------------------- concurrent runs ---------------------------- *)

\* Largest number of requests one goroutine serves in a run.
MaxRequests == 2

\* The routes added while requests are served.
RunRoutes == {Route("GET", PatA_B), Route("POST", PatA_B)}

\* The paths asked for; the last is the empty path, which a caller of
\* ServeLambda passes in an event without Path and Resource, and a caller of
\* ServeHTTP in a request whose URL has the opaque part "?".
RunPaths == {PatA_B, PatA_B_S, <<>>}

RunMethods == {"GET", "POST"}

\* The event lookup is given: RequestToLambda(r) in ServeHTTP, the event
\* with its path replaced by CleanPath(req) in ServeLambda.
RunEvent(e, m, p) ==
    IF e = "socket"
    THEN RequestToLambda([Method |-> m,
                          Path |-> IF p = <<>> THEN <<>> ELSE <<"/", "s">> \o p,
                          RawQuery |-> <<>>])
    ELSE LET req == [HTTPMethod |-> m, Path |-> p, Resource |-> p,
                     PathParameters |-> EmptyMap,
                     QueryStringParameters |-> EmptyMap]
         IN  [req EXCEPT !.Path = CleanPath(req)]

\* New(), then the two fields set before the server starts, PanicHandler
\* and SafeAddRoutesWhileRunning; requests are served with or without the
\* concurrency-safe mode.
RunInit ==
    /\ env \in {"socket", "lambda"}
    /\ mux \in {[New EXCEPT !.PanicHandler = TRUE,
                            !.SafeAddRoutesWhileRunning = safe] : safe \in BOOLEAN}
    /\ root = [key \in {<<>>} |-> NewNode(<<"/">>)]
    /\ routes = {}
    /\ last = NoRequest
    /\ groups = {RootGroup(env)}
    /\ regs = {}
    /\ wire = NoWire
    /\ mutex = NewMutex
    /\ reqs = NoRequests
    /\ adder = NoAdder

\* A request arrives and a goroutine enters ServeHTTP or ServeLambda.
Begin(p) ==
    \E m \in RunMethods, path \in RunPaths :
        /\ reqs[p].pc = "idle"
        /\ reqs[p].served < MaxRequests
        /\ reqs' = [reqs EXCEPT ![p] =
                        [IdleRequest EXCEPT
                            !.pc = IF NeedsLock(mux) THEN "RLock" ELSE "lookup",
                            !.event = RunEvent(env, m, path),
                            !.served = reqs[p].served]]
        /\ UNCHANGED <<env, mux, root, routes, last, groupVars, wire, mutex, adder>>

\* t.mutex.RLock() before lookup: waits while Lock was called.
RLock(p) ==
    /\ reqs[p].pc = "RLock"
    /\ mutex.writer = "none"
    /\ mutex' = [mutex EXCEPT !.readers = @ + 1]
    /\ reqs' = [reqs EXCEPT ![p].pc = "lookup", ![p].held = @ + 1]
    /\ UNCHANGED <<env, mux, root, routes, last, groupVars, wire, adder>>

\* t.lookup(event): the tree is read.  When lookup panics the statements
\* after it, RUnlock among them, are not run.
Lookup(p) ==
    /\ reqs[p].pc = "lookup"
    /\ LET lk == lookup(mux, root, reqs[p].event)
       IN  reqs' = [reqs EXCEPT
                      ![p].lk = lk,
                      ![p].node = IF lk.result.StatusCode = 405
                                  THEN leafNode(mux, root, reqs[p].event)
                                  ELSE <<>>,
                      ![p].calls = Append(@, "lookup"),
                      ![p].pc = IF lk.panicked THEN "panic"
                                ELSE IF NeedsLock(mux) THEN "RUnlock"
                                ELSE "serve"]
    /\ UNCHANGED <<env, mux, root, routes, last, groupVars, wire, mutex, adder>>

\* The panic leaves the function: ServeHTTP's deferred serveHTTPPanic
\* recovers it and calls PanicHandler, ServeLambda lets it go to its caller.
\* Neither has a deferred RUnlock.
serveHTTPPanic(p) ==
    /\ reqs[p].pc = "panic"
    /\ reqs' = [reqs EXCEPT
                  ![p].calls = IF env = "socket" /\ mux.PanicHandler
                               THEN Append(@, "PanicHandler") ELSE @,
                  ![p].pc = "done"]
    /\ UNCHANGED <<env, mux, root, routes, last, groupVars, wire, mutex, adder>>

\* t.mutex.RUnlock() after lookup.
RUnlock(p) ==
    /\ reqs[p].pc = "RUnlock"
    /\ mutex' = [mutex EXCEPT !.readers = @ - 1]
    /\ reqs' = [reqs EXCEPT ![p].pc = "serve", ![p].held = @ - 1]
    /\ UNCHANGED <<env, mux, root, routes, last, groupVars, wire, adder>>

\* The authorizer hook of ServeHTTP, then ServeLookupResult up to the call
\* of its callee; for a 405 result the leaf-handler map is read first.
Serve(p) ==
    /\ reqs[p].pc = "serve"
    /\ LET served == ServeLookupResult(mux, reqs[p].event, reqs[p].lk.result)
           hooked == IF env = "socket" /\ mux.authorizer
                     THEN Append(reqs[p].calls, "authorizer") ELSE reqs[p].calls
       IN  IF served.callee = "MethodNotAllowedHandler"
           THEN reqs' = [reqs EXCEPT
                           ![p].calls = hooked,
                           ![p].pc = IF NeedsLock(mux) THEN "allowRLock" ELSE "allow"]
           ELSE \E err \in IF served.callee = "handler" THEN BOOLEAN ELSE {FALSE} :
                    reqs' = [reqs EXCEPT
                               ![p].calls = Append(hooked, served.callee),
                               ![p].err = err,
                               ![p].pc = AfterHandler(err)]
    /\ UNCHANGED <<env, mux, root, routes, last, groupVars, wire, mutex, adder>>

\* t.mutex.RLock() of ServeLookupResult.
AllowRLock(p) ==
    /\ reqs[p].pc = "allowRLock"
    /\ mutex.writer = "none"
    /\ mutex' = [mutex EXCEPT !.readers = @ + 1]
    /\ reqs' = [reqs EXCEPT ![p].pc = "allow", ![p].held = @ + 1]
    /\ UNCHANGED <<env, mux, root, routes, last, groupVars, wire, adder>>

\* The range over lr.leafHandler, which is the node's own map, the call of
\* MethodNotAllowedHandler and the deferred RUnlock.
Allow(p) ==
    /\ reqs[p].pc = "allow"
    /\ reqs' = [reqs EXCEPT
                  ![p].lk.result.leafHandler = root[reqs[p].node].leafHandler,
                  ![p].calls = Append(@, "MethodNotAllowedHandler"),
                  ![p].held = IF NeedsLock(mux) THEN @ - 1 ELSE @,
                  ![p].pc = "done"]
    /\ mutex' = IF NeedsLock(mux) THEN [mutex EXCEPT !.readers = @ - 1] ELSE mutex
    /\ UNCHANGED <<env, mux, root, routes, last, groupVars, wire, adder>>

\* ServeHTTP or ServeLambda has returned, or the panic has left it.
Finish(p) ==
    /\ reqs[p].pc = "done"
    /\ reqs' = [reqs EXCEPT ![p] =
                    [IdleRequest EXCEPT !.served = reqs[p].served + 1]]
    /\ UNCHANGED <<env, mux, root, routes, last, groupVars, wire, mutex, adder>>

\* Handle is called: in the concurrency-safe mode it calls t.mutex.Lock(),
\* after which no new holder of the shared lock is let in.
HandleLock ==
    \E rt \in RunRoutes \ routes :
        /\ adder.pc = "idle"
        /\ CanHandle(mux, env, root, rt)
        /\ IF mux.SafeAddRoutesWhileRunning
           THEN /\ mutex.writer = "none"
                /\ mutex' = [mutex EXCEPT !.writer = "pending"]
                /\ adder' = [pc |-> "Lock", rt |-> rt]
           ELSE /\ adder' = [pc |-> "addPath", rt |-> rt]
                /\ UNCHANGED mutex
        /\ UNCHANGED <<env, mux, root, routes, last, groupVars, wire, reqs>>

\* Lock returns when the holders of the shared lock have left.
HandleLocked ==
    /\ adder.pc = "Lock"
    /\ mutex.readers = 0
    /\ mutex' = [mutex EXCEPT !.writer = "held"]
    /\ adder' = [adder EXCEPT !.pc = "addPath"]
    /\ UNCHANGED <<env, mux, root, routes, last, groupVars, wire, reqs>>

\* The route is put into the tree, and the deferred Unlock runs.
HandleAdd ==
    /\ adder.pc = "addPath"
    /\ root' = HandleTree(mux, env, root, adder.rt)
    /\ routes' = routes \cup {adder.rt}
    /\ mutex' = IF mux.SafeAddRoutesWhileRunning
                THEN [mutex EXCEPT !.writer = "none"] ELSE mutex
    /\ adder' = NoAdder
    /\ UNCHANGED <<env, mux, last, groupVars, wire, reqs>>

\* The steps of a request that has arrived.
Proceed(p) ==
    \/ RLock(p)
    \/ Lookup(p)
    \/ serveHTTPPanic(p)
    \/ RUnlock(p)
    \/ Serve(p)
    \/ AllowRLock(p)
    \/ Allow(p)
    \/ Finish(p)

RunStep(p) == Begin(p) \/ Proceed(p)

RunNext ==
    \/ \E p \in Procs : RunStep(p)
    \/ HandleLock
    \/ HandleLocked
    \/ HandleAdd

RunSpec == RunInit /\ [][RunNext]_vars

\* Goroutine p has a step to take: its request has arrived and it is not
\* waiting for the shared lock behind a call of Lock.
CanProceed(p) ==
    /\ reqs[p].pc # "idle"
    /\ reqs[p].pc \in {"RLock", "allowRLock"} => mutex.writer = "none"

\* Handle has a step to take: Lock can return, or the route is being added.
CanInsert ==
    \/ adder.pc = "Lock" /\ mutex.readers = 0
    \/ adder.pc = "addPath"

\* The goroutines are scheduled: a request that has arrived runs on as long
\* as it is not waiting for the lock, and so does a call of Handle.  This is
\* WF_vars(Proceed(p)) and WF_vars(HandleLocked \/ HandleAdd) written out,
\* with the conditions under which the steps are enabled in the place of
\* ENABLED.
RunFairness ==
    /\ \A p \in Procs : []<>(~CanProceed(p)) \/ []<><<Proceed(p)>>_vars
    /\ []<>(~CanInsert) \/ []<><<HandleLocked \/ HandleAdd>>_vars

FairRunSpec == RunSpec /\ RunFairness

(* ------------------------ claims on concurrent runs -------------------- *)

\* The four terminal callees of ServeLookupResult.
TerminalCallees ==
    {"NotFoundHandler", "MethodNotAllowedHandler", "redirectHandler", "handler"}

\* The places in the calls of goroutine p's request where a terminal callee
\* was invoked.
TerminalCalls(p) ==
    {i \in DOMAIN reqs[p].calls : reqs[p].calls[i] \in TerminalCallees}

\* The request of goroutine p is over: ServeHTTP or ServeLambda has returned
\* or was left by a panic.
Finished(p) == reqs[p].pc = "done"

\* A request never invokes two terminal callees or one of them twice, and a
\* request that is NotFound invokes the not-found collaborator only.
AtMostOneOutcome(p) ==
    /\ Cardinality(TerminalCalls(p)) <= 1
    /\ (Finished(p) /\ ~reqs[p].lk.panicked /\ reqs[p].lk.result.StatusCode = 404)
       => /\ reqs[p].calls[Len(reqs[p].calls)] = "NotFoundHandler"
          /\ \A i \in DOMAIN reqs[p].calls : reqs[p].calls[i] # "handler"

\* C15: each request reaches exactly one terminal outcome (not-found
\* collaborator, method-not-allowed collaborator, redirect response or the
\* matched handler) and that callee is invoked exactly once: no request
\* invokes two of them, none invokes a handler twice, also when the handler
\* returns an error, and a request with no match invokes the not-found
\* collaborator and no route handler.
C15_OneTerminalOutcome ==
    \A p \in Procs :
        /\ AtMostOneOutcome(p)
        /\ Finished(p) => Cardinality(TerminalCalls(p)) = 1

\* What holds of C15: a request whose lookup returns reaches exactly one
\* terminal outcome, once; a request whose lookup panics reaches none.
C15_OneOutcomeUnlessPanic ==
    \A p \in Procs :
        /\ AtMostOneOutcome(p)
        /\ Finished(p) =>
              Cardinality(TerminalCalls(p)) = IF reqs[p].lk.panicked THEN 0 ELSE 1

\* C15 witness: a request with an empty path is over, lookup has panicked,
\* and no terminal callee was invoked.
C15_Witness ==
    \E p \in Procs :
        /\ Finished(p)
        /\ reqs[p].event.Path = <<>>
        /\ reqs[p].lk.panicked
        /\ TerminalCalls(p) = {}

\* A matched handler has returned an error and the request is over, with the
\* handler invoked once.
C15_WitnessHandlerError ==
    \E p \in Procs :
        /\ Finished(p)
        /\ reqs[p].err
        /\ reqs[p].calls = <<"lookup", "handler">>

\* Goroutine p is at a read of the tree: the search inside lookup, or the
\* range over the leaf-handler map of the matched node.
Reading(p) == reqs[p].pc \in {"lookup", "allow"}

\* Handle is changing the tree.
Inserting == adder.pc = "addPath"

\* C16: in the concurrency-safe mode every read of the tree made while a
\* request is served, the search of lookup and the reading of the matched
\* node's leaf-handler map for the Allow list, is made while the request
\* holds the shared lock, and in no interleaving of requests and
\* insertions does a read overlap an insertion holding the exclusive lock.
C16_ReadsUnderSharedLock ==
    mux.SafeAddRoutesWhileRunning =>
        \A p \in Procs :
            Reading(p) => /\ reqs[p].held = 1
                          /\ mutex.readers >= 1
                          /\ mutex.writer # "held"
                          /\ ~Inserting

\* C16 witness: in the concurrency-safe mode one request reads the
\* leaf-handler map of the node it matched and another is inside lookup,
\* while Handle has called Lock and waits for both.
C16_Witness ==
    /\ mux.SafeAddRoutesWhileRunning
    /\ adder.pc = "Lock"
    /\ \E p, q \in Procs : reqs[p].pc = "allow" /\ reqs[q].pc = "lookup"

\* Without the concurrency-safe mode a search runs while Handle changes the
\* tree.
C16_WitnessUnsafe ==
    /\ ~mux.SafeAddRoutesWhileRunning
    /\ Inserting
    /\ \E p \in Procs : Reading(p)

(* --------------------------- rendering runs ---------------------------- *)

\* The routes of the runs that render templated resources.
RenderRoutes ==
    {Route("GET", PatA_B), Route("GET", PatA_X), Route("GET", <<"/", "a">>)}

\* Resources as API Gateway hands them on: without placeholders, with a
\* placeholder, with a greedy one, with a placeholder that is never closed,
\* with an empty one, and with placeholders whose name has a dot, which
\* text/template reads as a field of a field.
RenderResources ==
    {PatA_B,
     <<"/", "a", "/", "{", "x", "}">>,
     <<"/", "a", "/", "{", "proxy", "+", "}">>,
     <<"/", "a", "/", "{", "x">>,
     <<"/", "a", "/", "{", "}">>,
     <<"/", "a", "/", "{", "x", ".", "y", "}">>,
     <<"/", "{", "x", ".", "y", "}", "/", "b">>}

RenderParams ==
    {EmptyMap, [k \in {<<"x">>} |-> <<"b">>], [k \in {<<"proxy">>} |-> <<"b">>]}

RenderEvents ==
    {[HTTPMethod |-> "GET", Path |-> p, Resource |-> res, PathParameters |-> pp,
      QueryStringParameters |-> EmptyMap] :
        p \in {PatA_B, <<"/", "a", "/", "c">>}, res \in RenderResources,
        pp \in RenderParams}

\* The router on Lambda after New() and the registration of some routes.
RenderInit ==
    /\ env = "lambda"
    /\ mux = New
    /\ routes \in SUBSET RenderRoutes
    /\ root = BuildTree(mux, env, routes)
    /\ last = NoRequest
    /\ groups = {RootGroup(env)}
    /\ regs = {}
    /\ wire = NoWire
    /\ mutex = NewMutex
    /\ reqs = NoRequests
    /\ adder = NoAdder

RenderServeLambda ==
    \E req \in RenderEvents :
        /\ last = NoRequest
        /\ last' = ServeLambdaResult(mux, root, req)
        /\ UNCHANGED <<env, mux, root, routes, auxVars>>

RenderNext == RenderServeLambda \/ Idle

RenderSpec == RenderInit /\ [][RenderNext]_vars

\* tmpl.Execute returns an error: an action of the template asks for a field
\* of a path parameter, which is a string.
ExecuteFails(items) ==
    \E i \in 1..Len(items) : items[i].t = "field" /\ Len(items[i].names) > 1

\* What the template has written when Execute returns: everything before
\* the first action that fails.
RECURSIVE RenderedPrefix(_, _)
RenderedPrefix(items, params) ==
    IF items = <<>> THEN <<>>
    ELSE IF Head(items).t = "field" /\ Len(Head(items).names) > 1 THEN <<>>
    ELSE ExecuteTemplate(<<Head(items)>>, params)
         \o RenderedPrefix(Tail(items), params)

\* The resource of the last event does not parse as a template.
ParseFailed == ~ParseTemplate(last.request.Resource).ok

\* The resource of the last event parses and its execution fails.
ExecuteFailed ==
    /\ ParseTemplate(last.request.Resource).ok
    /\ ExecuteFails(ParseTemplate(last.request.Resource).items)

Rendered == last # NoRequest /\ last.transport = "lambda"

\* C17: when rendering the event's templated resource against its path
\* parameters fails, whether the template does not parse or its execution
\* fails part-way, the path used for routing is the event's literal Path,
\* unchanged, never a partially rendered or empty string, and the failure
\* does not abort the request.
C17_RenderFailureKeepsPath ==
    (Rendered /\ (ParseFailed \/ ExecuteFailed))
    => /\ last.event.Path = last.request.Path
       /\ ~last.lookup.panicked

\* What holds of C17: a resource that does not parse leaves the literal Path
\* in place; a resource whose execution fails is routed by what was written
\* before the failure; neither aborts the request.
C17_ParseFailureKeepsPath ==
    /\ (Rendered /\ ParseFailed)
       => last.event.Path = last.request.Path /\ ~last.lookup.panicked
    /\ (Rendered /\ ExecuteFailed)
       => /\ last.event.Path =
                RenderedPrefix(ParseTemplate(last.request.Resource).items,
                               last.request.PathParameters)
          /\ last.event.Path # last.request.Path
          /\ ~last.lookup.panicked

\* C17 witness: the event for /a/b has the resource /a/{x.y}; the execution
\* fails after "/a/" was written, the request is routed as /a/ and is
\* redirected to /a although GET /a/b is registered.
C17_Witness ==
    /\ Rendered
    /\ ExecuteFailed
    /\ Route("GET", PatA_B) \in routes
    /\ last.request.Path = PatA_B
    /\ last.event.Path = <<"/", "a", "/">>
    /\ last.lookup.result.StatusCode = 301

\* A resource that does not parse was routed by the literal Path.
C17_WitnessParseFailure ==
    /\ Rendered
    /\ ParseFailed
    /\ last.event.Path = PatA_B
    /\ last.lookup.result.StatusCode = 200

\* Handle has called Lock and waits for the holders of the shared lock.
Waiting == adder.pc = "Lock"

\* No request that is over still holds the shared lock, and when no request
\* is in flight the lock has no shared holder.
ReleasedWhenFinished ==
    mux.SafeAddRoutesWhileRunning =>
        /\ \A p \in Procs : Finished(p) => reqs[p].held = 0
        /\ (\A p \in Procs : reqs[p].pc = "idle") => mutex.readers = 0

\* A route insertion waiting for the exclusive lock is granted it.
InsertionGranted == Waiting ~> Inserting

\* C18: in the concurrency-safe mode every request that acquires the shared
\* lock releases it exactly once before it finishes, on every control path,
\* the one where lookup panics and the panic is recovered by PanicHandler
\* included, so that after any sequence of requests no shared lock remains
\* held and a route insertion waiting for the exclusive lock is eventually
\* granted it.
C18_SharedLockAlwaysReleased == []ReleasedWhenFinished /\ InsertionGranted

\* What holds of C18: a request whose lookup returns has released every
\* shared lock it took when it is over; a request whose lookup panics is
\* over with the shared lock of lookup still held.
C18_ReleasedUnlessPanic ==
    mux.SafeAddRoutesWhileRunning =>
        \A p \in Procs :
            Finished(p) => reqs[p].held = IF reqs[p].lk.panicked THEN 1 ELSE 0

\* C18 witness: on the socket transport a request with an empty path has
\* made lookup panic, PanicHandler has recovered the panic and the request
\* is back in the pool, the shared lock still has a holder, and Handle
\* waits for the exclusive lock.
C18_Witness ==
    /\ mux.SafeAddRoutesWhileRunning
    /\ env = "socket"
    /\ \A p \in Procs : reqs[p].pc = "idle"
    /\ \E p \in Procs : reqs[p].served > 0
    /\ mutex.readers > 0
    /\ Waiting

\* A request is over after a panic recovered by PanicHandler, holding the
\* shared lock.
C18_WitnessRecovered ==
    \E p \in Procs :
        /\ mux.SafeAddRoutesWhileRunning
        /\ Finished(p)
        /\ reqs[p].calls = <<"lookup", "PanicHandler">>
        /\ reqs[p].held = 1

====
